---------------------------- MODULE Spec2Model ----------------------------
(***************************************************************************)
(* A model of the MACC builder (MACCApp.jsx): the measure set and its      *)
(* handlers (wizard save, CSV import, table edits, delete, clear), the     *)
(* derived views computed from it (filtered, sorted, segments, maccData,   *)
(* budgetToTarget) and the measure wizard's multi-year projector.          *)
(*                                                                         *)
(* JavaScript numbers are modelled as extended rationals: a finite value   *)
(* is an exact fraction n/d, and NaN, +Infinity and -Infinity are values   *)
(* of their own with the arithmetic IEEE-754 gives them.  Rounding of      *)
(* binary floating point and the sign of zero are not modelled.            *)
(***************************************************************************)
EXTENDS Integers, Sequences, FiniteSets, TLC

(***************************************************************************)
(* Bounds of the model.                                                    *)
(***************************************************************************)
\* the measure set holds at most this many measures
MaxMeasures == 2
\* a CSV import brings at most this many rows
MaxRows == 1
\* a wizard session sees at most this many edits before it is saved or closed
MaxEdits == 2
\* the wizard assigns no id above this one
MaxIdValue == 3
\* a call of irr bisects at most this many times
MaxIter == 3
\* a series given to interpolateSeries has at most this many entries
MaxSeriesLen == 6
\* a wizard driver list holds at most this many lines
MaxLines == 3
\* the ids of the lines of a driver list stay at or below this
MaxLineId == 4

(***************************************************************************)
(* JavaScript numbers.                                                     *)
(***************************************************************************)
RECURSIVE GCD(_, _)
GCD(a, b) == IF b = 0 THEN a ELSE GCD(b, a % b)

Abs(n) == IF n < 0 THEN -n ELSE n

\* the finite number n/d (d # 0), in lowest terms with a positive denominator
Fin(n, d) ==
    LET g == GCD(Abs(n), Abs(d))
        s == IF d < 0 THEN -1 ELSE 1
    IN  [k |-> "fin", n |-> s * (n \div g), d |-> s * (d \div g)]

Num(n) == [k |-> "fin", n |-> n, d |-> 1]
NaN    == [k |-> "nan", n |-> 0, d |-> 1]
PosInf == [k |-> "inf", n |-> 1, d |-> 1]
NegInf == [k |-> "inf", n |-> -1, d |-> 1]
Zero   == Num(0)

IsNaN(x)    == x.k = "nan"
IsFinite(x) == x.k = "fin"
\* -1, 0 or 1; of an infinity, its direction
Sign(x)     == IF x.n > 0 THEN 1 ELSE IF x.n < 0 THEN -1 ELSE 0

LCM(a, b) == (a \div GCD(a, b)) * b

\* a + b
JsAdd(a, b) ==
    IF IsNaN(a) \/ IsNaN(b) THEN NaN
    ELSE IF ~IsFinite(a) /\ ~IsFinite(b) THEN (IF a.n = b.n THEN a ELSE NaN)
    ELSE IF ~IsFinite(a) THEN a
    ELSE IF ~IsFinite(b) THEN b
    ELSE LET l == LCM(a.d, b.d)
         IN  Fin(a.n * (l \div a.d) + b.n * (l \div b.d), l)

JsNeg(a) == IF IsNaN(a) THEN NaN ELSE [a EXCEPT !.n = -a.n]

\* a - b
JsSub(a, b) == JsAdd(a, JsNeg(b))

\* a * b
JsMul(a, b) ==
    IF IsNaN(a) \/ IsNaN(b) THEN NaN
    ELSE IF ~IsFinite(a) \/ ~IsFinite(b)
         THEN (IF Sign(a) * Sign(b) = 0 THEN NaN
               ELSE IF Sign(a) * Sign(b) > 0 THEN PosInf ELSE NegInf)
    ELSE IF a.n = 0 \/ b.n = 0 THEN Zero
    ELSE LET g1 == GCD(Abs(a.n), b.d)
             g2 == GCD(Abs(b.n), a.d)
         IN  Fin((a.n \div g1) * (b.n \div g2), (a.d \div g2) * (b.d \div g1))

\* a / b
JsDiv(a, b) ==
    IF IsNaN(a) \/ IsNaN(b) THEN NaN
    ELSE IF ~IsFinite(a) /\ ~IsFinite(b) THEN NaN
    ELSE IF ~IsFinite(b) THEN Zero
    ELSE IF b.n = 0
         THEN (IF Sign(a) = 0 THEN NaN ELSE IF Sign(a) > 0 THEN PosInf ELSE NegInf)
    ELSE IF ~IsFinite(a)
         THEN (IF Sign(a) * Sign(b) > 0 THEN PosInf ELSE NegInf)
    ELSE JsMul(a, Fin(b.d, b.n))

\* an/ad < bn/bd for ad, bd > 0, by whole parts and then the remainders
RECURSIVE FracLT(_, _, _, _)
FracLT(an, ad, bn, bd) ==
    IF an \div ad # bn \div bd THEN an \div ad < bn \div bd
    ELSE IF an % ad = 0 THEN bn % bd > 0
    ELSE IF bn % bd = 0 THEN FALSE
    ELSE FracLT(bd, bn % bd, ad, an % ad)

\* a < b (false when either is NaN)
JsLT(a, b) ==
    IF IsNaN(a) \/ IsNaN(b) THEN FALSE
    ELSE IF ~IsFinite(a) THEN a.n < 0 /\ b # NegInf
    ELSE IF ~IsFinite(b) THEN b.n > 0
    ELSE FracLT(a.n, a.d, b.n, b.d)

JsGT(a, b) == JsLT(b, a)
\* a <= b (false when either is NaN)
JsLE(a, b) == ~IsNaN(a) /\ ~IsNaN(b) /\ ~JsLT(b, a)
JsGE(a, b) == JsLE(b, a)

\* Math.max(a, b) and Math.min(a, b)
JsMax(a, b) == IF IsNaN(a) \/ IsNaN(b) THEN NaN ELSE IF JsLT(a, b) THEN b ELSE a
JsMin(a, b) == IF IsNaN(a) \/ IsNaN(b) THEN NaN ELSE IF JsLT(b, a) THEN b ELSE a

\* an input left empty ("") and an override that is absent (null)
Blank == [k |-> "blank", n |-> 0, d |-> 1]
Null  == [k |-> "null", n |-> 0, d |-> 1]

\* Number(x || 0): NaN, 0, "" and null are falsy
OrZero(x) == IF x.k \in {"nan", "blank", "null"} THEN Zero ELSE x

\* Math.pow(b, e) for a whole e >= 0
RECURSIVE JsPow(_, _)
JsPow(b, e) ==
    IF e = 0 THEN Num(1)
    ELSE LET h == JsPow(b, e \div 2)
         IN  IF e % 2 = 0 THEN JsMul(h, h) ELSE JsMul(JsMul(h, h), b)

\* Number(s) of a CSV cell or an input's text
StrToNum(s) ==
    CASE s = ""          -> Zero
      [] s = "0"         -> Zero
      [] s = "1"         -> Num(1)
      [] s = "2"         -> Num(2)
      [] s = "3"         -> Num(3)
      [] s = "4"         -> Num(4)
      [] s = "5"         -> Num(5)
      [] s = "-1"        -> Num(-1)
      [] s = "-2"        -> Num(-2)
      [] s = "Infinity"  -> PosInf
      [] s = "-Infinity" -> NegInf
      [] OTHER           -> NaN


(***************************************************************************)
(* Sequence helpers.                                                       *)
(***************************************************************************)
Front(s) == SubSeq(s, 1, Len(s) - 1)
Last(s)  == s[Len(s)]

\* arr.filter(keep): the elements i of s with keep[i], in order
RECURSIVE FilterSeq(_, _)
FilterSeq(s, keep) ==
    IF s = <<>> THEN <<>>
    ELSE LET rest == FilterSeq(Front(s), keep)
         IN  IF keep[Len(s)] THEN Append(rest, Last(s)) ELSE rest

\* arr.findIndex(x => x.id === id), 1-based; 0 when there is none
FindIndexById(s, id) ==
    IF \E i \in 1..Len(s) : s[i].id = id
    THEN CHOOSE i \in 1..Len(s) : s[i].id = id /\ \A j \in 1..(i - 1) : s[j].id # id
    ELSE 0

\* Math.max(0, ...ids)
RECURSIVE MaxId(_)
MaxId(s) ==
    IF s = <<>> THEN 0
    ELSE LET r == MaxId(Front(s)) IN IF Last(s).id > r THEN Last(s).id ELSE r

(***************************************************************************)
(* State.                                                                  *)
(***************************************************************************)
VARIABLES
    measures,            \* the measure set: a sequence of Measure records
    selectedSector,      \* "All sectors" or a sector
    mode,                \* "capacity" | "intensity"
    carbonPrice,         \* a number
    targetIntensityPct,  \* the target slider
    baselines,           \* sector -> [annual_emissions]
    dataSources,         \* the reference tables the data files gave
    costModel,           \* "step" | "fit"
    fitPositiveCostsOnly,
    call,                \* a call of a library function: its arguments and result
    wizardOpen,          \* whether the measure wizard is mounted
    \* the state of the mounted wizard (its initial state while unmounted)
    applyCarbonPriceInSave,
    meta,
    adoption,
    otherDirectT,
    fuelLines,
    rawLines,
    transLines,
    wasteLines,
    elecLines,
    stack,
    wizEdits             \* how many edits this wizard session has seen

appVars == <<measures, selectedSector, mode, carbonPrice, targetIntensityPct,
             baselines, dataSources, costModel, fitPositiveCostsOnly,
             call>>
wizVars == <<applyCarbonPriceInSave, meta, adoption, otherDirectT, fuelLines,
             rawLines, transLines, wasteLines, elecLines, stack, wizEdits>>
vars == <<appVars, wizardOpen, wizVars>>

\* no library call is under study
NoCall == [fn |-> "none"]

\* the sectors of the loaded data set
Sectors == {"Power", "Steel"}
AllSectors == "All sectors"
sectorOptions == {AllSectors} \cup Sectors

(***************************************************************************)
(* Derived views (the component's useMemo values).                         *)
(***************************************************************************)
\* the sum of Number(b.annual_emissions || 0) over the baselines of the set S
RECURSIVE SumEmissions(_)
SumEmissions(S) ==
    IF S = {} THEN Zero
    ELSE LET s == CHOOSE x \in S : TRUE
         IN  JsAdd(SumEmissions(S \ {s}), OrZero(baselines[s].annual_emissions))

activeBaseline ==
    IF selectedSector = AllSectors
    THEN [annual_emissions |-> SumEmissions(DOMAIN baselines)]
    ELSE IF selectedSector \in DOMAIN baselines
         THEN baselines[selectedSector]
         ELSE [annual_emissions |-> Num(1)]

\* the rows the measures table shows
SectorMatches(m) == selectedSector = AllSectors \/ m.sector = selectedSector

filtered ==
    FilterSeq(measures,
              [i \in 1..Len(measures) |->
                  measures[i].selected /\ SectorMatches(measures[i])])

\* the copy of m the map makes when the carbon price is price
WithEffectiveCostAt(m, price) ==
    [id |-> m.id, name |-> m.name, sector |-> m.sector,
     abatement_tco2 |-> m.abatement_tco2, cost_per_tco2 |-> m.cost_per_tco2,
     selected |-> m.selected, details |-> m.details,
     effective_cost |-> JsSub(OrZero(m.cost_per_tco2), OrZero(price))]

WithEffectiveCost(m) == WithEffectiveCostAt(m, carbonPrice)

\* a faulty comparator, descending: (b.effective_cost || 0) - (a.effective_cost || 0)
CompareReversed(a, b) == JsSub(OrZero(b.effective_cost), OrZero(a.effective_cost))

\* the comparator of copy.sort: (a.effective_cost || 0) - (b.effective_cost || 0)
Compare(a, b) == JsSub(OrZero(a.effective_cost), OrZero(b.effective_cost))

\* a faulty insertion: x goes before the elements that compare equal to it
RECURSIVE InsertBeforeEquals(_, _)
InsertBeforeEquals(s, x) ==
    IF s = <<>> THEN <<x>>
    ELSE IF ~JsLT(Compare(Last(s), x), Zero)
         THEN Append(InsertBeforeEquals(Front(s), x), Last(s))
         ELSE Append(s, x)

\* Array.prototype.sort is stable; a comparator result of NaN counts as 0
RECURSIVE InsertSorted(_, _)
InsertSorted(s, x) ==
    IF s = <<>> THEN <<x>>
    ELSE IF JsGT(Compare(Last(s), x), Zero)
         THEN Append(InsertSorted(Front(s), x), Last(s))
         ELSE Append(s, x)

RECURSIVE SortByCost(_)
SortByCost(s) ==
    IF s = <<>> THEN <<>> ELSE InsertSorted(SortByCost(Front(s)), Last(s))

sorted ==
    SortByCost([i \in 1..Len(filtered) |-> WithEffectiveCost(filtered[i])])

\* a faulty segment record: every segment starts at 0 (x1_cap = 0)
SegmentOfFromZero(m, cum) ==
    LET A      == OrZero(m.abatement_tco2)
        C      == OrZero(m.effective_cost)
        x2_cap == JsAdd(cum, JsMax(Zero, A))
        denom  == OrZero(activeBaseline.annual_emissions)
        Plot(x) == IF mode = "capacity" THEN x
                   ELSE IF JsGT(denom, Zero)
                        THEN JsMul(JsDiv(x, denom), Num(100)) ELSE Zero
    IN  [id |-> m.id, name |-> m.name, sector |-> m.sector,
         x1_plot |-> Zero, x2_plot |-> Plot(x2_cap),
         cost |-> C, abatement |-> A]

\* the record the walk pushes for m when the walk stands at cum
SegmentOf(m, cum) ==
    LET A      == OrZero(m.abatement_tco2)
        C      == OrZero(m.effective_cost)
        x1_cap == cum
        x2_cap == JsAdd(cum, JsMax(Zero, A))
        denom  == OrZero(activeBaseline.annual_emissions)
        Plot(x) == IF mode = "capacity" THEN x
                   ELSE IF JsGT(denom, Zero)
                        THEN JsMul(JsDiv(x, denom), Num(100)) ELSE Zero
    IN  [id |-> m.id, name |-> m.name, sector |-> m.sector,
         x1_plot |-> Plot(x1_cap), x2_plot |-> Plot(x2_cap),
         cost |-> C, abatement |-> A]

\* the guard of the walk: whether it returns early for m
SegmentSkipped(m) ==
    LET A == OrZero(m.abatement_tco2)
        C == OrZero(m.effective_cost)
    IN  ~IsFinite(A) \/ ~IsFinite(C) \/ JsLE(A, Zero)

RECURSIVE SegmentsWalk(_, _, _)
SegmentsWalk(list, cum, segs) ==
    IF list = <<>> THEN segs
    ELSE IF SegmentSkipped(Head(list))
         THEN SegmentsWalk(Tail(list), cum, segs)
         ELSE SegmentsWalk(Tail(list),
                           JsAdd(cum, JsMax(Zero, OrZero(Head(list).abatement_tco2))),
                           Append(segs, SegmentOf(Head(list), cum)))

segments == SegmentsWalk(sorted, Zero, <<>>)

\* the segments of the shown measures when the carbon price is price
SegmentsAtPrice(price) ==
    SegmentsWalk(SortByCost([i \in 1..Len(filtered) |->
                                WithEffectiveCostAt(filtered[i], price)]),
                 Zero, <<>>)

totalX == IF segments # <<>> THEN Last(segments).x2_plot ELSE Zero

RECURSIVE MaccWalk(_, _, _)
MaccWalk(list, cumAbate, points) ==
    IF list = <<>> THEN points
    ELSE LET m   == Head(list)
             A   == OrZero(m.abatement_tco2)
             C   == OrZero(m.effective_cost)
             cum == JsAdd(cumAbate, JsMax(Zero, A))
             E   == activeBaseline.annual_emissions
             xIntensityPct == IF JsGT(E, Zero)
                              THEN JsMul(JsDiv(cum, E), Num(100)) ELSE Zero
             x   == IF mode = "capacity" THEN cum ELSE xIntensityPct
         IN  MaccWalk(Tail(list), cum,
                      Append(points, [id |-> m.id, name |-> m.name,
                                      sector |-> m.sector, abatement |-> A,
                                      cost |-> C, cumAbate |-> cum, x |-> x]))

maccData == MaccWalk(sorted, Zero, <<>>)

\* the target of the greedy walk, in the unit the walk compares it in
TargetX(pct) ==
    IF mode = "capacity"
    THEN JsMul(activeBaseline.annual_emissions, JsDiv(pct, Num(100)))
    ELSE pct

RECURSIVE BudgetWalk(_, _, _)
BudgetWalk(points, targetX, acc) ==
    IF points = <<>> THEN acc
    ELSE LET p         == Head(points)
             remaining == JsMax(Zero, JsSub(targetX, acc.cum))
             take      == JsMin(remaining, p.abatement)
             cum       == JsAdd(acc.cum, take)
         IN  IF JsGT(take, Zero)
             THEN BudgetWalk(Tail(points), targetX,
                    [cum     |-> cum,
                     budget  |-> JsAdd(acc.budget, JsMul(take, p.cost)),
                     reached |-> IF mode = "capacity" THEN cum
                                 ELSE JsMul(JsDiv(cum, activeBaseline.annual_emissions),
                                            Num(100))])
             ELSE BudgetWalk(Tail(points), targetX, acc)

\* what budgetToTarget returns when the target slider stands at pct
BudgetAt(pct) ==
    IF maccData = <<>> THEN [targetReached |-> Zero, budget |-> Zero]
    ELSE LET r == BudgetWalk(maccData, TargetX(pct),
                             [cum |-> Zero, budget |-> Zero, reached |-> Zero])
         IN  [targetReached |-> r.reached, budget |-> r.budget]

budgetToTarget == BudgetAt(targetIntensityPct)

\* the sum of the numbers of a sequence, from 0 on
RECURSIVE SumNums(_)
SumNums(s) == IF s = <<>> THEN Zero ELSE JsAdd(SumNums(Front(s)), Last(s))

\* det of the 3 x 3 matrix with the rows <<a, b, c>>, <<d, e, f>>, <<g, h, k>>
Det3(a, b, c, d, e, f, g, h, k) ==
    JsAdd(JsSub(JsMul(a, JsSub(JsMul(e, k), JsMul(f, h))),
                JsMul(b, JsSub(JsMul(d, k), JsMul(f, g)))),
          JsMul(c, JsSub(JsMul(d, h), JsMul(e, g))))

\* Math.abs(D) < 1e-12; a fraction of the model has a denominator below 2^31
BelowTolerance(D) ==
    /\ IsFinite(D)
    /\ \/ D.n = 0
       \/ /\ Abs(D.n) <= 2147
          /\ Abs(D.n) * 1000000 <= (D.d - 1) \div 1000000

\* D = det(M) of the normal equations over the points xs
NormalDet(xs) ==
    LET n == Len(xs)
        P(e) == SumNums([i \in 1..n |-> JsPow(xs[i], e)])
    IN  Det3(Num(n), P(1), P(2), P(1), P(2), P(3), P(2), P(3), P(4))

\* the sentinel a degenerate fit returns
Sentinel == [a |-> Zero, b |-> Zero, c |-> Zero]

\* the coefficients, given the sums and the determinant D of M
FitFromSums(n, Sx, Sx2, Sx3, Sx4, Sy, Sxy, Sx2y, D) ==
    IF BelowTolerance(D) THEN Sentinel
    ELSE [a |-> JsDiv(Det3(Sy, Sx, Sx2, Sxy, Sx2, Sx3, Sx2y, Sx3, Sx4), D),
          b |-> JsDiv(Det3(n, Sy, Sx2, Sx, Sxy, Sx3, Sx2, Sx2y, Sx4), D),
          c |-> JsDiv(Det3(n, Sx, Sy, Sx, Sx2, Sxy, Sx2, Sx3, Sx2y), D)]

quadraticFit(xs, ys) ==
    IF Len(xs) < 3 THEN Sentinel
    ELSE FitFromSums(Num(Len(xs)),
             SumNums([i \in 1..Len(xs) |-> xs[i]]),
             SumNums([i \in 1..Len(xs) |-> JsPow(xs[i], 2)]),
             SumNums([i \in 1..Len(xs) |-> JsPow(xs[i], 3)]),
             SumNums([i \in 1..Len(xs) |-> JsPow(xs[i], 4)]),
             SumNums([i \in 1..Len(xs) |-> ys[i]]),
             SumNums([i \in 1..Len(xs) |-> JsMul(xs[i], ys[i])]),
             SumNums([i \in 1..Len(xs) |-> JsMul(JsPow(xs[i], 2), ys[i])]),
             NormalDet(xs))

\* the points the fit is made over
dataToFit ==
    IF fitPositiveCostsOnly
    THEN FilterSeq(maccData, [i \in 1..Len(maccData) |-> JsGE(maccData[i].cost, Zero)])
    ELSE maccData

\* quad with the coefficients bound; isNull stands for the value null
QuadOf(co) ==
    [isNull |-> FALSE, a |-> co.a, b |-> co.b, c |-> co.c,
     fitted |-> [k \in 1..Len(maccData) |->
                   [x |-> maccData[k].x,
                    y |-> JsAdd(JsAdd(co.a, JsMul(co.b, maccData[k].x)),
                                JsMul(JsMul(co.c, maccData[k].x), maccData[k].x))]]]

NullQuad == [isNull |-> TRUE, a |-> Zero, b |-> Zero, c |-> Zero, fitted |-> <<>>]

\* !quad: the fit has fewer than 3 points
quadIsNull == Len(dataToFit) < 3

quad ==
    IF quadIsNull THEN NullQuad
    ELSE QuadOf(quadraticFit([i \in 1..Len(dataToFit) |-> dataToFit[i].x],
                             [i \in 1..Len(dataToFit) |-> dataToFit[i].cost]))

\* the chart's branch: whether the fitted line is what the chart shows
fitChartShown == costModel = "fit" /\ ~quadIsNull

\* dataToFit.length for the measure set ms, sector filter sel, carbon price cp
\* and checkbox fp: one point per selected measure of the viewed sector, those
\* of effective cost < 0 being left out under fp
FitPoints(ms, sel, cp, fp) ==
    Cardinality({i \in 1..Len(ms) :
        /\ ms[i].selected
        /\ (sel = AllSectors \/ ms[i].sector = sel)
        /\ fp => JsGE(OrZero(JsSub(OrZero(ms[i].cost_per_tco2), OrZero(cp))), Zero)})

\* a faulty guard: the cost model stays as it is
FitGuardLeavesFit ==
    /\ fitPositiveCostsOnly' = fitPositiveCostsOnly
    /\ costModel' = costModel

\* the effect that guards the fit branch, run on the state a handler leaves:
\* if (costModel === 'fit' && !quad) setCostModel('step')
FitGuard ==
    /\ fitPositiveCostsOnly' = fitPositiveCostsOnly
    /\ costModel' = IF /\ costModel = "fit"
                       /\ FitPoints(measures', selectedSector', carbonPrice',
                                    fitPositiveCostsOnly') < 3
                    THEN "step" ELSE costModel

(***************************************************************************)
(* Finance: NPV and IRR.                                                   *)
(***************************************************************************)
\* Math.abs(x)
JsAbs(x) == IF IsNaN(x) THEN NaN ELSE [x EXCEPT !.n = Abs(x.n)]

\* npv(rate, amounts, years, baseYear): the reduce over the amounts, from 0
RECURSIVE npv(_, _, _, _)
npv(rate, amounts, years, baseYear) ==
    IF amounts = <<>> THEN Zero
    ELSE JsAdd(npv(rate, Front(amounts), years, baseYear),
               JsDiv(Last(amounts),
                     JsPow(JsAdd(Num(1), rate),
                           IF years[Len(amounts)] - baseYear > 0
                           THEN years[Len(amounts)] - baseYear ELSE 0)))

\* what irr returns: null, or the rate r
IrrNull  == [isNull |-> TRUE, rate |-> Zero]
IrrOf(r) == [isNull |-> FALSE, rate |-> r]

RECURSIVE IrrLoop(_, _, _, _, _, _, _, _)
\* the body of the bisection loop with mid and fMid bound
IrrStep(amounts, years, baseYear, lo, hi, fLo, tol, left, mid, fMid) ==
    IF JsLT(JsAbs(fMid), tol) THEN IrrOf(mid)
    ELSE IF JsLT(JsMul(fLo, fMid), Zero)
         THEN IrrLoop(amounts, years, baseYear, lo, mid, fLo, tol, left - 1)
         ELSE IrrLoop(amounts, years, baseYear, mid, hi, fMid, tol, left - 1)

\* the bisection loop with left iterations to go
IrrLoop(amounts, years, baseYear, lo, hi, fLo, tol, left) ==
    IF left = 0 THEN IrrOf(JsDiv(JsAdd(lo, hi), Num(2)))
    ELSE IrrStep(amounts, years, baseYear, lo, hi, fLo, tol, left,
                 JsDiv(JsAdd(lo, hi), Num(2)),
                 npv(JsDiv(JsAdd(lo, hi), Num(2)), amounts, years, baseYear))

\* irr with fLo and fHi bound
IrrFrom(amounts, years, baseYear, lo, hi, fLo, fHi, tol, maxIter) ==
    IF IsNaN(fLo) \/ IsNaN(fHi) THEN IrrNull
    ELSE IF JsGT(JsMul(fLo, fHi), Zero) THEN IrrNull
    ELSE IrrLoop(amounts, years, baseYear, lo, hi, fLo, tol, maxIter)

irr(amounts, years, baseYear, guessLow, guessHigh, tol, maxIter) ==
    IrrFrom(amounts, years, baseYear, guessLow, guessHigh,
            npv(guessLow, amounts, years, baseYear),
            npv(guessHigh, amounts, years, baseYear), tol, maxIter)

(***************************************************************************)
(* The measure wizard: reference data, initial state and the projector.    *)
(***************************************************************************)
YEARS == <<2020, 2025, 2030, 2035, 2040, 2045, 2050>>
BASE_YEAR == YEARS[1]
CR_TO_RUPEES == 10000000
YearIdx == 1..Len(YEARS)

\* the reference tables of a data set whose files are filled
LoadedData ==
    [fuels       |-> <<[name |-> "Coal", price |-> Num(100), ef_tco2_per_unit |-> Num(2)]>>,
     raw         |-> <<[name |-> "Limestone", price |-> Num(50), ef_tco2_per_unit |-> Num(1)]>>,
     transport   |-> <<[name |-> "Road", price |-> Num(10), ef_tco2_per_unit |-> Num(1)]>>,
     waste       |-> <<[name |-> "Landfill", price |-> Num(20), ef_tco2_per_unit |-> Num(3)]>>,
     electricity |-> <<[state |-> "India", price_per_mwh |-> Num(500),
                        ef_tco2_per_mwh |-> Fin(71, 100)]>>]

\* the reference tables of a data set whose five reference files hold []
EmptyTables ==
    [fuels |-> <<>>, raw |-> <<>>, transport |-> <<>>, waste |-> <<>>,
     electricity |-> <<>>]

DS_FUELS       == dataSources.fuels
DS_RAW         == dataSources.raw
DS_TRANSPORT   == dataSources.transport
DS_WASTE       == dataSources.waste
DS_ELECTRICITY == dataSources.electricity

\* what find() gives when no row matches
UndefinedRow == [name |-> "", price |-> Null, ef_tco2_per_unit |-> Null]
UndefinedElecRow == [state |-> "", price_per_mwh |-> Null, ef_tco2_per_mwh |-> Null]

\* table.find(x => x.name === name)
FindByName(table, name) ==
    IF \E i \in 1..Len(table) : table[i].name = name
    THEN table[CHOOSE i \in 1..Len(table) :
                  table[i].name = name /\ \A j \in 1..(i - 1) : table[j].name # name]
    ELSE UndefinedRow

\* DS_ELECTRICITY.find(x => x.state === state) || DS_ELECTRICITY[0]
FindElec(state) ==
    IF \E i \in 1..Len(DS_ELECTRICITY) : DS_ELECTRICITY[i].state = state
    THEN DS_ELECTRICITY[CHOOSE i \in 1..Len(DS_ELECTRICITY) :
                           DS_ELECTRICITY[i].state = state
                           /\ \A j \in 1..(i - 1) : DS_ELECTRICITY[j].state # state]
    ELSE IF DS_ELECTRICITY # <<>> THEN DS_ELECTRICITY[1] ELSE UndefinedElecRow

getUnitPrice(row)       == IF row.price = Null THEN Zero ELSE row.price
getEFperUnit(row)       == IF row.ef_tco2_per_unit = Null THEN Zero ELSE row.ef_tco2_per_unit
getElecPricePerMWh(row) == IF row.price_per_mwh = Null THEN Num(500) ELSE row.price_per_mwh
getElecEFperMWh(row)    == IF row.ef_tco2_per_mwh = Null THEN Fin(71, 100) ELSE row.ef_tco2_per_mwh

makeZeros   == [i \in YearIdx |-> Zero]
makeEmptyEf == [i \in YearIdx |-> Blank]

\* the sample line the Add buttons and the initial state use
SampleLine(table) ==
    [name |-> IF table # <<>> THEN table[1].name ELSE "",
     priceOv |-> Null, efOv |-> Null,
     priceEscPctYr |-> Zero, efEscPctYr |-> Zero, delta |-> makeZeros]

WithId(id, ln) ==
    [id |-> id, name |-> ln.name, priceOv |-> ln.priceOv, efOv |-> ln.efOv,
     priceEscPctYr |-> ln.priceEscPctYr, efEscPctYr |-> ln.efEscPctYr,
     delta |-> ln.delta]

InitialElecLine ==
    [id |-> 1,
     state |-> IF DS_ELECTRICITY # <<>> THEN DS_ELECTRICITY[1].state ELSE "India",
     priceOv |-> Null, priceEscPctYr |-> Zero, efEscPctYr |-> Zero,
     efOvPerYear |-> makeEmptyEf, deltaMWh |-> makeZeros]

InitialStack ==
    [opex_cr                |-> makeZeros,
     savings_cr             |-> makeZeros,
     other_cr               |-> makeZeros,
     capex_upfront_cr       |-> makeZeros,
     capex_financed_cr      |-> makeZeros,
     financing_tenure_years |-> [i \in YearIdx |-> Num(10)],
     interest_rate_pct      |-> [i \in YearIdx |-> Num(7)]]

InitialMeta == [project_name |-> "Industrial Efficiency Project", sector |-> "Power"]
InitialAdoption == [i \in YearIdx |-> IF i = 1 THEN Zero ELSE Fin(2 * (i - 1), 10)]

\* the state of a freshly mounted wizard
WizardInit ==
    /\ applyCarbonPriceInSave = FALSE
    /\ meta = InitialMeta
    /\ adoption = InitialAdoption
    /\ otherDirectT = makeZeros
    /\ fuelLines  = <<WithId(1, SampleLine(DS_FUELS))>>
    /\ rawLines   = <<WithId(1, SampleLine(DS_RAW))>>
    /\ transLines = <<WithId(1, SampleLine(DS_TRANSPORT))>>
    /\ wasteLines = <<WithId(1, SampleLine(DS_WASTE))>>
    /\ elecLines  = <<InitialElecLine>>
    /\ stack = InitialStack
    /\ wizEdits = 0

\* the wizard unmounts: its state is gone, and the next mount starts afresh
WizardUnmount ==
    /\ applyCarbonPriceInSave' = FALSE
    /\ meta' = InitialMeta
    /\ adoption' = InitialAdoption
    /\ otherDirectT' = makeZeros
    /\ fuelLines'  = <<WithId(1, SampleLine(DS_FUELS))>>
    /\ rawLines'   = <<WithId(1, SampleLine(DS_RAW))>>
    /\ transLines' = <<WithId(1, SampleLine(DS_TRANSPORT))>>
    /\ wasteLines' = <<WithId(1, SampleLine(DS_WASTE))>>
    /\ elecLines'  = <<InitialElecLine>>
    /\ stack' = InitialStack
    /\ wizEdits' = 0

annuityFactor(r, n) ==
    IF ~IsFinite(r) \/ ~IsFinite(n) \/ JsLE(n, Zero) THEN Zero
    ELSE IF JsLT(Fin(Abs(r.n), r.d), Fin(1, 1000000000)) THEN JsDiv(Num(1), n)
    ELSE LET p == JsPow(JsAdd(Num(1), r), n.n)
         IN  JsDiv(JsMul(r, p), JsSub(p, Num(1)))

\* the tonnes and driver cost one fuel/raw/transport/waste line adds in year i
DriverLine(ln, table, a, i) ==
    LET yearsSinceBase == IF YEARS[i] - BASE_YEAR > 0 THEN YEARS[i] - BASE_YEAR ELSE 0
        base      == FindByName(table, ln.name)
        basePrice == IF ln.priceOv # Null THEN ln.priceOv ELSE getUnitPrice(base)
        priceEsc  == JsDiv(OrZero(ln.priceEscPctYr), Num(100))
        effPrice  == JsMul(basePrice, JsPow(JsAdd(Num(1), priceEsc), yearsSinceBase))
        baseEf    == IF ln.efOv # Null THEN ln.efOv ELSE getEFperUnit(base)
        efEsc     == JsDiv(OrZero(ln.efEscPctYr), Num(100))
        effEf     == JsMul(baseEf, JsPow(JsAdd(Num(1), efEsc), yearsSinceBase))
        qty       == JsMul(a, OrZero(ln.delta[i]))
    IN  [t  |-> JsMul(qty, effEf),
         cr |-> JsDiv(JsMul(qty, effPrice), Num(CR_TO_RUPEES))]

\* the tonnes and driver cost one electricity line adds in year i
ElecLine(ln, a, i) ==
    LET yearsSinceBase == IF YEARS[i] - BASE_YEAR > 0 THEN YEARS[i] - BASE_YEAR ELSE 0
        base      == FindElec(ln.state)
        basePrice == IF ln.priceOv # Null THEN ln.priceOv ELSE getElecPricePerMWh(base)
        priceEsc  == JsDiv(OrZero(ln.priceEscPctYr), Num(100))
        effPrice  == JsMul(basePrice, JsPow(JsAdd(Num(1), priceEsc), yearsSinceBase))
        hasOv     == ln.efOvPerYear[i] # Blank /\ ln.efOvPerYear[i] # Null
        baseEf    == IF hasOv THEN ln.efOvPerYear[i] ELSE getElecEFperMWh(base)
        efEsc     == JsDiv(OrZero(ln.efEscPctYr), Num(100))
        effEf     == IF hasOv THEN ln.efOvPerYear[i]
                     ELSE JsMul(baseEf, JsPow(JsAdd(Num(1), efEsc), yearsSinceBase))
        mwh       == JsMul(a, OrZero(ln.deltaMWh[i]))
    IN  [t  |-> JsMul(mwh, effEf),
         cr |-> JsDiv(JsMul(mwh, effPrice), Num(CR_TO_RUPEES))]

\* the for-loop over one driver list: the summed tonnes and driver cost
RECURSIVE SumLines(_, _, _, _)
SumLines(lines, table, a, i) ==
    IF lines = <<>> THEN [t |-> Zero, cr |-> Zero]
    ELSE LET rest == SumLines(Front(lines), table, a, i)
             one  == DriverLine(Last(lines), table, a, i)
         IN  [t |-> JsAdd(rest.t, one.t), cr |-> JsAdd(rest.cr, one.cr)]

RECURSIVE SumElecLines(_, _, _)
SumElecLines(lines, a, i) ==
    IF lines = <<>> THEN [t |-> Zero, cr |-> Zero]
    ELSE LET rest == SumElecLines(Front(lines), a, i)
             one  == ElecLine(Last(lines), a, i)
         IN  [t |-> JsAdd(rest.t, one.t), cr |-> JsAdd(rest.cr, one.cr)]

\* a faulty implied cost: the test direct_t > 0 is missing
ImpliedCostWOUnguarded(net_cost_cr, direct_t) ==
    JsDiv(JsMul(net_cost_cr, Num(CR_TO_RUPEES)), direct_t)

\* the implied cost per tonne of a year, without and with the carbon price
ImpliedCostWO(net_cost_cr, direct_t) ==
    IF JsGT(direct_t, Zero)
    THEN JsDiv(JsMul(net_cost_cr, Num(CR_TO_RUPEES)), direct_t)
    ELSE Zero

ImpliedCostW(net_cost_cr, direct_t) ==
    IF JsGT(direct_t, Zero)
    THEN JsDiv(JsSub(JsMul(net_cost_cr, Num(CR_TO_RUPEES)),
                     JsMul(OrZero(carbonPrice), direct_t)), direct_t)
    ELSE Zero

\* a running pair of tonnes and driver cost, x, with the pair y added
AddPair(x, y) == [t |-> JsAdd(x.t, y.t), cr |-> JsAdd(x.cr, y.cr)]

\* fuel_t + raw_t + trans_t + waste_t + elec_t and driver_cr of year i at adoption a
Drivers(a, i) ==
    AddPair(AddPair(AddPair(AddPair(SumLines(fuelLines, DS_FUELS, a, i),
                                    SumLines(rawLines, DS_RAW, a, i)),
                            SumLines(transLines, DS_TRANSPORT, a, i)),
                    SumLines(wasteLines, DS_WASTE, a, i)),
            SumElecLines(elecLines, a, i))

\* financedAnnual_cr of year i
FinancedAnnual(i) ==
    IF /\ JsGT(OrZero(stack.capex_financed_cr[i]), Zero)
       /\ JsGT(JsDiv(OrZero(stack.interest_rate_pct[i]), Num(100)), Zero)
       /\ JsGT(OrZero(stack.financing_tenure_years[i]), Zero)
    THEN JsMul(OrZero(stack.capex_financed_cr[i]),
               annuityFactor(JsDiv(OrZero(stack.interest_rate_pct[i]), Num(100)),
                             OrZero(stack.financing_tenure_years[i])))
    ELSE Zero

\* the record the year's computation returns, given the values it has bound
YearRecord(i, direct_t, driver_cr, net_cost_cr, cashflow_inr_wo_cp) ==
    [year |-> YEARS[i], direct_t |-> direct_t, net_cost_cr |-> net_cost_cr,
     implied_cost_per_t_wo |-> ImpliedCostWO(net_cost_cr, direct_t),
     implied_cost_per_t_w  |-> ImpliedCostW(net_cost_cr, direct_t),
     cashflow_inr_wo_cp |-> cashflow_inr_wo_cp,
     cashflow_inr_w_cp  |-> JsAdd(cashflow_inr_wo_cp,
                                  JsMul(OrZero(carbonPrice), direct_t)),
     driver_cr |-> driver_cr]

\* net_cost_cr and cashflow_inr_wo_cp of year i, and its record
YearCosts(i, direct_t, driver_cr, financedAnnual_cr) ==
    YearRecord(i, direct_t, driver_cr,
        JsAdd(JsSub(JsAdd(JsAdd(driver_cr, OrZero(stack.opex_cr[i])),
                          OrZero(stack.other_cr[i])),
                    OrZero(stack.savings_cr[i])),
              financedAnnual_cr),
        JsMul(JsSub(JsSub(JsSub(JsSub(JsSub(OrZero(stack.savings_cr[i]),
                                            OrZero(stack.opex_cr[i])),
                                      driver_cr),
                                OrZero(stack.other_cr[i])),
                          financedAnnual_cr),
                    OrZero(stack.capex_upfront_cr[i])),
              Num(CR_TO_RUPEES)))

\* other_t and direct_t of year i at adoption a, drv being the drivers' pair
YearOf(i, a, drv) ==
    YearCosts(i, JsAdd(drv.t, JsMul(a, OrZero(otherDirectT[i]))), drv.cr,
              FinancedAnnual(i))

\* a faulty clamp: the upper end is missing, Math.max(0, Number(v || 0))
ClampFromBelow(v) == JsMax(Zero, OrZero(v))

\* Math.max(0, Math.min(1, Number(v || 0)))
Clamp01(v) == JsMax(Zero, JsMin(Num(1), OrZero(v)))

\* the year record of year index i when the adoption entry of the year is v,
\* a being the clamped adoption
YearAtAdoption(i, a) == YearOf(i, a, Drivers(a, i))
PerYearAt(i, v) == YearAtAdoption(i, Clamp01(v))

\* the year record of year index i (1-based)
PerYear(i) == PerYearAt(i, adoption[i])

perYear == [i \in YearIdx |-> PerYear(i)]

\* YEARS.indexOf(y), 0-based; -1 when y is no anchor year
IndexOfYear(y) ==
    IF \E i \in YearIdx : YEARS[i] = y
    THEN (CHOOSE i \in YearIdx : YEARS[i] = y) - 1
    ELSE -1

\* a faulty representative index: findIndex(y => y.direct_t >= 0)
RepIdxNonNegative(py) ==
    IF \E i \in YearIdx : JsGE(py[i].direct_t, Zero)
    THEN (CHOOSE i \in YearIdx : JsGE(py[i].direct_t, Zero)
                                 /\ \A j \in 1..(i - 1) : ~JsGE(py[j].direct_t, Zero)) - 1
    ELSE IF IndexOfYear(2035) >= 0 THEN IndexOfYear(2035) ELSE Len(YEARS) \div 2

\* the representative year's index, 0-based as in the source
RepIdx(py) ==
    IF \E i \in YearIdx : JsGT(py[i].direct_t, Zero)
    THEN (CHOOSE i \in YearIdx : JsGT(py[i].direct_t, Zero)
                                 /\ \A j \in 1..(i - 1) : ~JsGT(py[j].direct_t, Zero)) - 1
    ELSE IF IndexOfYear(2035) >= 0 THEN IndexOfYear(2035) ELSE Len(YEARS) \div 2

\* what the projector returns, given perYear and repIdx
ComputedOf(py, ri) == [perYear |-> py, repIdx |-> ri, rep |-> py[ri + 1]]

\* the projector with perYear bound
ComputedFrom(py) == ComputedOf(py, RepIdx(py))

computed == ComputedFrom(perYear)

\* the finance summary of the projector over the year records py: the total
\* positive direct abatement, the total net costs in rupees without and with the
\* carbon price, and the average levelized costs
sumDirect(py) == SumNums([i \in 1..Len(py) |-> JsMax(Zero, py[i].direct_t)])

sumCostInrWO(py) ==
    SumNums([i \in 1..Len(py) |-> JsMul(py[i].net_cost_cr, Num(CR_TO_RUPEES))])

sumCostInrW(py) ==
    SumNums([i \in 1..Len(py) |->
                JsSub(JsMul(py[i].net_cost_cr, Num(CR_TO_RUPEES)),
                      JsMul(OrZero(carbonPrice), py[i].direct_t))])

\* sumDirect > 0 ? total / sumDirect : 0
AvgCost(total, tonnes) == IF JsGT(tonnes, Zero) THEN JsDiv(total, tonnes) ELSE Zero

avgCostWO(py) == AvgCost(sumCostInrWO(py), sumDirect(py))
avgCostW(py)  == AvgCost(sumCostInrW(py), sumDirect(py))


(***************************************************************************)
(* Handlers of the application.                                            *)
(***************************************************************************)
\* saveWizard(obj): the measure gets the id max + 1 and the wizard unmounts
saveWizard(obj) ==
    /\ MaxId(measures) < MaxIdValue
    /\ measures' = Append(measures,
                      [id |-> MaxId(measures) + 1, name |-> obj.name,
                       sector |-> obj.sector, abatement_tco2 |-> obj.abatement_tco2,
                       cost_per_tco2 |-> obj.cost_per_tco2, selected |-> obj.selected,
                       details |-> obj.details])
    /\ wizardOpen' = FALSE
    /\ WizardUnmount

\* "+ Add measure": the wizard mounts in its initial state
AddMeasure ==
    /\ ~wizardOpen
    /\ wizardOpen' = TRUE
    /\ UNCHANGED <<appVars, wizVars>>

\* Cancel or Escape in the wizard
CloseWizard ==
    /\ wizardOpen
    /\ wizardOpen' = FALSE
    /\ WizardUnmount
    /\ UNCHANGED appVars

\* saveQuick with the quick form holding q
saveQuick(q) ==
    /\ wizardOpen
    /\ Len(measures) < MaxMeasures
    /\ saveWizard([name |-> q.name, sector |-> q.sector,
                   abatement_tco2 |-> OrZero(q.abatement_tco2),
                   cost_per_tco2 |-> OrZero(q.cost_per_tco2),
                   selected |-> q.selected,
                   details |-> [mode |-> "quick"]])
    /\ UNCHANGED <<selectedSector, mode, carbonPrice, targetIntensityPct, baselines,
                   dataSources, call>>
    /\ FitGuard

\* the details a template save stores, c being the projector's value
TemplateDetails(c) ==
    [mode |-> "template_db_multiline",
     years |-> YEARS,
     meta |-> meta,
     adoption |-> adoption,
     drivers |-> [fuel_lines |-> fuelLines, raw_lines |-> rawLines,
                  transport_lines |-> transLines, waste_lines |-> wasteLines,
                  electricity_lines |-> elecLines, other_direct_t |-> otherDirectT],
     stack |-> stack,
     per_year |-> c.perYear,
     representative_index |-> c.repIdx,
     saved_cost_includes_carbon_price |-> applyCarbonPriceInSave,
     carbon_price_at_save |-> OrZero(carbonPrice)]

\* a faulty abatement: the representative year's direct_t as it is
repAbateAsIs(c) == c.rep.direct_t
\* const repAbate = Math.max(0, computed.rep.direct_t)
repAbate(c) == JsMax(Zero, c.rep.direct_t)

\* saveTemplate with the projector's value c; ok is the user's answer should
\* the confirmation be asked
SaveTemplateOf(c, ok) ==
    LET repCost  == IF applyCarbonPriceInSave
                    THEN c.rep.implied_cost_per_t_w
                    ELSE c.rep.implied_cost_per_t_wo
    IN  /\ wizardOpen
        /\ Len(measures) < MaxMeasures
        /\ IF JsLE(repAbate(c), Zero) /\ ~ok
           THEN UNCHANGED vars
           ELSE /\ saveWizard([name |-> meta.project_name, sector |-> meta.sector,
                               abatement_tco2 |-> repAbate(c), cost_per_tco2 |-> repCost,
                               selected |-> TRUE, details |-> TemplateDetails(c)])
                /\ UNCHANGED <<selectedSector, mode, carbonPrice, targetIntensityPct,
                               baselines, dataSources, call>>
                /\ FitGuard

saveTemplate(ok) == SaveTemplateOf(computed, ok)

\* `Row ${i + 1}` for the 0-based row index i
RowName(i) == CASE i = 0 -> "Row 1" [] i = 1 -> "Row 2" [] i = 2 -> "Row 3"
                [] OTHER -> "Row n"

\* String(sel ?? "true").toLowerCase() !== "false"
SelectedOfCell(c) == c \notin {"false", "FALSE", "False"}

\* the measure importCSV makes of row r, the i-th (0-based) of the file
ParsedRow(r, i) ==
    [id |-> i + 1 + Len(measures),
     name |-> IF r.name # "" THEN r.name ELSE RowName(i),
     sector |-> IF r.sector # "" THEN r.sector ELSE "Power",
     abatement_tco2 |-> StrToNum(r.abatement_tco2),
     cost_per_tco2 |-> StrToNum(r.cost_per_tco2),
     selected |-> SelectedOfCell(r.selected),
     details |-> r.details]

importCSV(rows) ==
    /\ ~wizardOpen
    /\ Len(measures) + Len(rows) <= MaxMeasures
    /\ measures' = measures \o [i \in 1..Len(rows) |-> ParsedRow(rows[i], i - 1)]
    /\ UNCHANGED <<selectedSector, mode, carbonPrice, targetIntensityPct, baselines,
                   wizardOpen, wizVars, dataSources, call>>
    /\ FitGuard

\* "Clear"; ok is the user's answer to the confirmation
clearAll(ok) ==
    /\ ~wizardOpen
    /\ measures' = IF ok THEN <<>> ELSE measures
    /\ UNCHANGED <<selectedSector, mode, carbonPrice, targetIntensityPct, baselines,
                   wizardOpen, wizVars, dataSources, call>>
    /\ FitGuard

\* a table cell's onChange for the shown row j: the first measure with the row's
\* id is replaced by the row's measure with the edited field
EditRow(j, edited) ==
    /\ ~wizardOpen
    /\ j \in 1..Len(measures)
    /\ SectorMatches(measures[j])
    /\ measures' = [measures EXCEPT ![FindIndexById(measures, measures[j].id)] = edited]
    /\ UNCHANGED <<selectedSector, mode, carbonPrice, targetIntensityPct, baselines,
                   wizardOpen, wizVars, dataSources, call>>
    /\ FitGuard

SetSelected(j, b)  == EditRow(j, [measures[j] EXCEPT !.selected = b])
SetName(j, v)      == EditRow(j, [measures[j] EXCEPT !.name = v])
SetSector(j, v)    == EditRow(j, [measures[j] EXCEPT !.sector = v])
SetAbatement(j, v) == EditRow(j, [measures[j] EXCEPT !.abatement_tco2 = StrToNum(v)])
SetCost(j, v)      == EditRow(j, [measures[j] EXCEPT !.cost_per_tco2 = StrToNum(v)])

\* the row's Delete button: measures.filter(x => x.id !== m.id)
Delete(j) ==
    /\ ~wizardOpen
    /\ j \in 1..Len(measures)
    /\ SectorMatches(measures[j])
    /\ measures' = FilterSeq(measures,
                             [i \in 1..Len(measures) |-> measures[i].id # measures[j].id])
    /\ UNCHANGED <<selectedSector, mode, carbonPrice, targetIntensityPct, baselines,
                   wizardOpen, wizVars, dataSources, call>>
    /\ FitGuard

SetSelectedSector(s) ==
    /\ ~wizardOpen
    /\ selectedSector' = s
    /\ UNCHANGED <<measures, mode, carbonPrice, targetIntensityPct, baselines,
                   wizardOpen, wizVars, dataSources, call>>
    /\ FitGuard

SetMode(m) ==
    /\ ~wizardOpen
    /\ mode' = m
    /\ UNCHANGED <<measures, selectedSector, carbonPrice, targetIntensityPct, baselines,
                   wizardOpen, wizVars, dataSources, call>>
    /\ FitGuard

SetCarbonPrice(v) ==
    /\ ~wizardOpen
    /\ carbonPrice' = StrToNum(v)
    /\ UNCHANGED <<measures, selectedSector, mode, targetIntensityPct, baselines,
                   wizardOpen, wizVars, dataSources, call>>
    /\ FitGuard

SetTargetIntensityPct(v) ==
    /\ ~wizardOpen
    /\ targetIntensityPct' = Num(v)
    /\ UNCHANGED <<measures, selectedSector, mode, carbonPrice, baselines,
                   wizardOpen, wizVars, dataSources, call>>
    /\ FitGuard

\* the Emissions input of the baseline panel
SetBaselineEmissions(v) ==
    /\ ~wizardOpen
    /\ selectedSector # AllSectors
    /\ baselines' = [s \in DOMAIN baselines \cup {selectedSector} |->
                        IF s = selectedSector THEN [annual_emissions |-> v]
                        ELSE baselines[s]]
    /\ UNCHANGED <<measures, selectedSector, mode, carbonPrice, targetIntensityPct,
                   wizardOpen, wizVars, dataSources, call>>
    /\ FitGuard

\* the button "Continuous (coloured)"
setCostModelStep ==
    /\ ~wizardOpen
    /\ costModel' = "step"
    /\ UNCHANGED <<measures, selectedSector, mode, carbonPrice, targetIntensityPct,
                   baselines, dataSources, call, fitPositiveCostsOnly, wizardOpen,
                   wizVars>>

\* the button "Quadratic Fit", and the effect that guards the fit branch
setCostModelFit ==
    /\ ~wizardOpen
    /\ costModel' = IF Len(maccData) >= 3
                    THEN (IF quadIsNull THEN "step" ELSE "fit")
                    ELSE costModel
    /\ UNCHANGED <<measures, selectedSector, mode, carbonPrice, targetIntensityPct,
                   baselines, dataSources, call, fitPositiveCostsOnly, wizardOpen,
                   wizVars>>

\* the checkbox "Fit curve to positive costs only", shown while the cost model
\* is fit, and the effect that guards the fit branch
SetFitPositiveCostsOnly(b) ==
    /\ ~wizardOpen
    /\ costModel = "fit"
    /\ fitPositiveCostsOnly' = b
    /\ UNCHANGED <<measures, selectedSector, mode, carbonPrice, targetIntensityPct,
                   baselines, dataSources, call, wizardOpen, wizVars>>
    /\ costModel' = IF FitPoints(measures', selectedSector', carbonPrice',
                                 fitPositiveCostsOnly') < 3
                    THEN "step" ELSE costModel

\* the derived views of one render
Views ==
    [sorted |-> sorted, segments |-> segments, maccData |-> maccData,
     quad |-> quad, budgetToTarget |-> budgetToTarget]

\* the outputs of the runs so far, v being the output of this run
WithRun(fn, v) ==
    [fn |-> fn, outs |-> IF call.fn = fn THEN Append(call.outs, v) ELSE <<v>>]

\* a faulty build: the stored array is sorted in place, by cost_per_tco2
RECURSIVE StoredSortedInPlace(_)
StoredSortedInPlace(ms) ==
    IF Len(ms) < 2 THEN ms
    ELSE LET front == StoredSortedInPlace(Front(ms))
         IN  IF JsGT(Last(front).cost_per_tco2, Last(ms).cost_per_tco2)
             THEN Append(StoredSortedInPlace(Append(Front(front), Last(ms))), Last(front))
             ELSE Append(front, Last(ms))

\* the stored array once the views are built: filter and map make new arrays
\* and new objects, so the sort and the walks touch only those
StoredAfterViews(ms) == ms

\* a render of the application: the derived views are built from the state
BuildViews ==
    /\ ~wizardOpen
    /\ call.fn \in {"none", "views"}
    /\ call.fn = "views" => Len(call.outs) < 2
    /\ call' = WithRun("views", Views)
    /\ measures' = StoredAfterViews(measures)
    /\ UNCHANGED <<selectedSector, mode, carbonPrice, targetIntensityPct, baselines,
                   dataSources, costModel, fitPositiveCostsOnly, wizardOpen, wizVars>>

\* a render of the wizard: the projector runs over the wizard's state, which
\* it only reads
RunProjector ==
    /\ wizardOpen
    /\ call.fn \in {"none", "computed"}
    /\ call.fn = "computed" => Len(call.outs) < 2
    /\ call' = WithRun("computed", computed)
    /\ UNCHANGED <<measures, selectedSector, mode, carbonPrice, targetIntensityPct,
                   baselines, dataSources, costModel, fitPositiveCostsOnly,
                   wizardOpen, wizVars>>

(***************************************************************************)
(* Handlers of the wizard's template tab.                                  *)
(***************************************************************************)
\* an edit in the mounted wizard, counted
WizardEdit ==
    /\ wizardOpen
    /\ wizEdits < MaxEdits
    /\ wizEdits' = wizEdits + 1

\* the adoption row's onChange
SetAdoption(i, v) ==
    /\ WizardEdit
    /\ adoption' = [adoption EXCEPT ![i] =
                       IF v = "" THEN Blank
                       ELSE JsMax(Zero, JsMin(Num(1), StrToNum(v)))]
    /\ UNCHANGED <<appVars, wizardOpen, applyCarbonPriceInSave, meta, otherDirectT,
                   fuelLines, rawLines, transLines, wasteLines, elecLines, stack>>

\* the test of interpolateSeries' loop: the entry is "", null or not finite
NotAnAnchor(v) == v = Blank \/ v = Null \/ ~IsFinite(v)

\* a faulty inner loop: the entries between the anchors all get the left one
FillWithLeft(s, lo, hi) ==
    [k \in 1..Len(s) |-> IF lo < k /\ k < hi THEN s[lo] ELSE s[k]]

\* the inner loop: the entries strictly between the anchors lo and hi get the
\* line through the two
FillBetween(s, lo, hi) ==
    [k \in 1..Len(s) |->
        IF lo < k /\ k < hi
        THEN JsAdd(s[lo], JsMul(JsDiv(JsSub(s[hi], s[lo]), Num(hi - lo)), Num(k - lo)))
        ELSE s[k]]

\* the outer loop from index i, lastIdx being 0 for null
RECURSIVE InterpolateFrom(_, _, _)
InterpolateFrom(s, i, lastIdx) ==
    IF i > Len(s) THEN s
    ELSE IF NotAnAnchor(s[i]) THEN InterpolateFrom(s, i + 1, lastIdx)
    ELSE IF lastIdx = 0 THEN InterpolateFrom(s, i + 1, i)
    ELSE InterpolateFrom(FillBetween(s, lastIdx, i), i + 1, i)

interpolateSeries(series) == InterpolateFrom(series, 1, 0)

\* the adoption row's Interpolate button; it is no edit of an entry
InterpolateAdoption ==
    /\ wizardOpen
    /\ adoption' = interpolateSeries(adoption)
    /\ UNCHANGED <<appVars, wizardOpen, applyCarbonPriceInSave, meta, otherDirectT,
                   fuelLines, rawLines, transLines, wasteLines, elecLines, stack,
                   wizEdits>>

\* setSeries(otherDirectT, setOtherDirectT, i, v)
SetOtherDirectT(i, v) ==
    /\ WizardEdit
    /\ otherDirectT' = [otherDirectT EXCEPT ![i] = IF v = "" THEN Blank ELSE StrToNum(v)]
    /\ UNCHANGED <<appVars, wizardOpen, applyCarbonPriceInSave, meta, adoption,
                   fuelLines, rawLines, transLines, wasteLines, elecLines, stack>>

\* updateLine(list, setList, id, patch) on the fuel list: a cell of the delta row
UpdateFuelDelta(id, i, v) ==
    /\ WizardEdit
    /\ \E k \in 1..Len(fuelLines) : fuelLines[k].id = id
    /\ fuelLines' = [k \in 1..Len(fuelLines) |->
                        IF fuelLines[k].id = id
                        THEN [fuelLines[k] EXCEPT !.delta[i] =
                                 IF v = "" THEN Blank ELSE StrToNum(v)]
                        ELSE fuelLines[k]]
    /\ UNCHANGED <<appVars, wizardOpen, applyCarbonPriceInSave, meta, adoption,
                   otherDirectT, rawLines, transLines, wasteLines, elecLines, stack>>

\* the Opex and Savings rows of the cost stack
SetOpex(i, v) ==
    /\ WizardEdit
    /\ stack' = [stack EXCEPT !.opex_cr[i] = IF v = "" THEN Blank ELSE StrToNum(v)]
    /\ UNCHANGED <<appVars, wizardOpen, applyCarbonPriceInSave, meta, adoption,
                   otherDirectT, fuelLines, rawLines, transLines, wasteLines, elecLines>>

SetSavings(i, v) ==
    /\ WizardEdit
    /\ stack' = [stack EXCEPT !.savings_cr[i] = IF v = "" THEN Blank ELSE StrToNum(v)]
    /\ UNCHANGED <<appVars, wizardOpen, applyCarbonPriceInSave, meta, adoption,
                   otherDirectT, fuelLines, rawLines, transLines, wasteLines, elecLines>>

SetApplyCarbonPriceInSave(b) ==
    /\ WizardEdit
    /\ applyCarbonPriceInSave' = b
    /\ UNCHANGED <<appVars, wizardOpen, meta, adoption, otherDirectT,
                   fuelLines, rawLines, transLines, wasteLines, elecLines, stack>>


\* the list with the delta cell i of the line id set to the input's text v
WithDelta(lines, id, i, v) ==
    [k \in 1..Len(lines) |->
        IF lines[k].id = id
        THEN [lines[k] EXCEPT !.delta[i] = IF v = "" THEN Blank ELSE StrToNum(v)]
        ELSE lines[k]]

\* the delta rows of the raw material, transport and water/waste lines
UpdateRawDelta(id, i, v) ==
    /\ WizardEdit
    /\ \E k \in 1..Len(rawLines) : rawLines[k].id = id
    /\ rawLines' = WithDelta(rawLines, id, i, v)
    /\ UNCHANGED <<appVars, wizardOpen, applyCarbonPriceInSave, meta, adoption,
                   otherDirectT, fuelLines, transLines, wasteLines, elecLines, stack>>

UpdateTransDelta(id, i, v) ==
    /\ WizardEdit
    /\ \E k \in 1..Len(transLines) : transLines[k].id = id
    /\ transLines' = WithDelta(transLines, id, i, v)
    /\ UNCHANGED <<appVars, wizardOpen, applyCarbonPriceInSave, meta, adoption,
                   otherDirectT, fuelLines, rawLines, wasteLines, elecLines, stack>>

UpdateWasteDelta(id, i, v) ==
    /\ WizardEdit
    /\ \E k \in 1..Len(wasteLines) : wasteLines[k].id = id
    /\ wasteLines' = WithDelta(wasteLines, id, i, v)
    /\ UNCHANGED <<appVars, wizardOpen, applyCarbonPriceInSave, meta, adoption,
                   otherDirectT, fuelLines, rawLines, transLines, elecLines, stack>>

\* the deltaMWh row of an electricity line
UpdateElecDelta(id, i, v) ==
    /\ WizardEdit
    /\ \E k \in 1..Len(elecLines) : elecLines[k].id = id
    /\ elecLines' = [k \in 1..Len(elecLines) |->
                        IF elecLines[k].id = id
                        THEN [elecLines[k] EXCEPT !.deltaMWh[i] =
                                 IF v = "" THEN Blank ELSE StrToNum(v)]
                        ELSE elecLines[k]]
    /\ UNCHANGED <<appVars, wizardOpen, applyCarbonPriceInSave, meta, adoption,
                   otherDirectT, fuelLines, rawLines, transLines, wasteLines, stack>>

\* the EF override row of an electricity line: the text is kept, and read
\* with Number() by the projector
UpdateElecEfOv(id, i, v) ==
    /\ WizardEdit
    /\ \E k \in 1..Len(elecLines) : elecLines[k].id = id
    /\ elecLines' = [k \in 1..Len(elecLines) |->
                        IF elecLines[k].id = id
                        THEN [elecLines[k] EXCEPT !.efOvPerYear[i] =
                                 IF v = "" THEN Blank ELSE StrToNum(v)]
                        ELSE elecLines[k]]
    /\ UNCHANGED <<appVars, wizardOpen, applyCarbonPriceInSave, meta, adoption,
                   otherDirectT, fuelLines, rawLines, transLines, wasteLines, stack>>

\* the price override input of a fuel line: "" clears the override
UpdateFuelPriceOv(id, v) ==
    /\ WizardEdit
    /\ \E k \in 1..Len(fuelLines) : fuelLines[k].id = id
    /\ fuelLines' = [k \in 1..Len(fuelLines) |->
                        IF fuelLines[k].id = id
                        THEN [fuelLines[k] EXCEPT !.priceOv =
                                 IF v = "" THEN Null ELSE StrToNum(v)]
                        ELSE fuelLines[k]]
    /\ UNCHANGED <<appVars, wizardOpen, applyCarbonPriceInSave, meta, adoption,
                   otherDirectT, rawLines, transLines, wasteLines, elecLines, stack>>


(***************************************************************************)
(* Specifications.  Each starts from a session on a data set of two        *)
(* sectors and no baselines, whose measure set was cleared, and lets the   *)
(* user act with inputs from the sets named in it.                         *)
(***************************************************************************)
Init ==
    /\ measures = <<>>
    /\ selectedSector = AllSectors
    /\ mode = "capacity"
    /\ carbonPrice = Zero
    /\ targetIntensityPct = Num(20)
    /\ baselines = [s \in {} |-> [annual_emissions |-> Zero]]
    /\ dataSources = LoadedData
    /\ call = NoCall
    /\ costModel = "step"
    /\ fitPositiveCostsOnly = FALSE
    /\ wizardOpen = FALSE
    /\ WizardInit

Quick(sector, abatement, cost) ==
    [name |-> "New Measure", sector |-> sector, abatement_tco2 |-> Num(abatement),
     cost_per_tco2 |-> Num(cost), selected |-> TRUE]

Row(sector, abatement, cost, selected) ==
    [name |-> "", sector |-> sector, abatement_tco2 |-> abatement,
     cost_per_tco2 |-> cost, selected |-> selected, details |-> [mode |-> "none"]]

\* the files of 1..MaxRows rows drawn from the set rows
Files(rows) == UNION {[1..n -> rows] : n \in 1..MaxRows}

Modes == {"capacity", "intensity"}

(* The measure set's life: saves, imports, table edits, deletes, clear.    *)
LifeQuickInputs == {Quick("Power", 2, 1), Quick("Steel", 0, 4)}
LifeCsvRows     == {Row("", "3", "4", "true"), Row("Steel", "2", "1", "false")}

Next ==
    \/ AddMeasure
    \/ CloseWizard
    \/ \E q \in LifeQuickInputs : saveQuick(q)
    \/ \E ok \in BOOLEAN : saveTemplate(ok)
    \/ \E rows \in Files(LifeCsvRows) : importCSV(rows)
    \/ \E ok \in BOOLEAN : clearAll(ok)
    \/ \E j \in 1..MaxMeasures, b \in BOOLEAN : SetSelected(j, b)
    \/ \E j \in 1..MaxMeasures : SetName(j, "Boiler")
    \/ \E j \in 1..MaxMeasures, v \in Sectors : SetSector(j, v)
    \/ \E j \in 1..MaxMeasures : SetAbatement(j, "5")
    \/ \E j \in 1..MaxMeasures : SetCost(j, "-1")
    \/ \E j \in 1..MaxMeasures : Delete(j)
    \/ \E s \in sectorOptions : SetSelectedSector(s)

Spec == Init /\ [][Next]_vars

(* The curve: what the MACC walk makes of a measure set under every view.  *)
CurveQuickInputs ==
    {Quick("Power", 2, 1), Quick("Power", 0, 4), Quick("Steel", 3, 4)}
CurveCsvRows ==
    {Row("", "2", "Infinity", "true"), Row("", "Infinity", "4", "true"),
     Row("", "3", "n/a", "true")}
CarbonPrices   == {"0", "2"}
ViewSectors    == {AllSectors, "Power"}
CurveEmissions == {Num(0), Num(50)}

NextCurve ==
    \/ AddMeasure
    \/ CloseWizard
    \/ \E q \in CurveQuickInputs : saveQuick(q)
    \/ \E rows \in Files(CurveCsvRows) : importCSV(rows)
    \/ \E j \in 1..MaxMeasures, b \in BOOLEAN : SetSelected(j, b)
    \/ \E s \in ViewSectors : SetSelectedSector(s)
    \/ \E m \in Modes : SetMode(m)
    \/ \E v \in CarbonPrices : SetCarbonPrice(v)
    \/ \E v \in CurveEmissions : SetBaselineEmissions(v)

SpecCurve == Init /\ [][NextCurve]_vars

(* The budget: the greedy walk under every target, baseline and mode.      *)
BudgetQuickInputs ==
    {Quick("Power", 2, 1), Quick("Power", 3, 4), Quick("Power", 30, 4),
     Quick("Power", -1, 1)}
Targets         == {0, 20, 50}
BudgetEmissions == {Num(-50), Num(0), Num(50), Num(200)}

NextBudget ==
    \/ AddMeasure
    \/ CloseWizard
    \/ \E q \in BudgetQuickInputs : saveQuick(q)
    \/ \E j \in 1..MaxMeasures : SetCost(j, "-2")
    \/ SetSelectedSector("Power")
    \/ \E m \in Modes : SetMode(m)
    \/ \E v \in Targets : SetTargetIntensityPct(v)
    \/ \E v \in BudgetEmissions : SetBaselineEmissions(v)

SpecBudget == Init /\ [][NextBudget]_vars

(* The wizard: a template session on an empty measure set, and the table   *)
(* edit of the measure it saved.                                           *)
\* the year columns the session edits: 2020, 2025 and 2035
EditYears == {i \in YearIdx : YEARS[i] \in {2020, 2025, 2035}}

NextWizard ==
    \/ measures = <<>> /\ AddMeasure
    \/ CloseWizard
    \/ \E i \in EditYears, v \in {"", "1", "2"} : SetAdoption(i, v)
    \/ \E i \in EditYears, v \in {"5", "-1"} : SetOtherDirectT(i, v)
    \/ \E i \in EditYears : UpdateFuelDelta(1, i, "3")
    \/ \E i \in EditYears : SetOpex(i, "2")
    \/ \E i \in EditYears : SetSavings(i, "3")
    \/ \E b \in BOOLEAN : SetApplyCarbonPriceInSave(b)
    \/ \E ok \in BOOLEAN : saveTemplate(ok)
    \/ measures = <<>> /\ \E v \in CarbonPrices : SetCarbonPrice(v)
    \/ SetAbatement(1, "5")
    \/ SetCost(1, "4")

SpecWizard == Init /\ [][NextWizard]_vars

(* The drivers: a template session on a data set with or without reference *)
(* rows, every driver category being edited.                               *)
DataSets == {LoadedData, EmptyTables}

InitDrivers ==
    /\ measures = <<>>
    /\ selectedSector = AllSectors
    /\ mode = "capacity"
    /\ carbonPrice = Zero
    /\ targetIntensityPct = Num(20)
    /\ baselines = [s \in {} |-> [annual_emissions |-> Zero]]
    /\ dataSources \in DataSets
    /\ call = NoCall
    /\ costModel = "step"
    /\ fitPositiveCostsOnly = FALSE
    /\ wizardOpen = FALSE
    /\ WizardInit

NextDrivers ==
    \/ measures = <<>> /\ AddMeasure
    \/ CloseWizard
    \/ \E i \in EditYears : UpdateFuelDelta(1, i, "3")
    \/ \E i \in EditYears : UpdateRawDelta(1, i, "3")
    \/ \E i \in EditYears : UpdateTransDelta(1, i, "3")
    \/ \E i \in EditYears : UpdateWasteDelta(1, i, "3")
    \/ \E i \in EditYears : UpdateElecDelta(1, i, "3")
    \/ \E i \in EditYears, v \in {"1", ""} : UpdateElecEfOv(1, i, v)
    \/ \E v \in {"4", ""} : UpdateFuelPriceOv(1, v)
    \/ \E ok \in BOOLEAN : saveTemplate(ok)

SpecDrivers == InitDrivers /\ [][NextDrivers]_vars

(* The fit: the cost model and the fit over the three measures the data    *)
(* files brought, under table edits and every view.                        *)
Loaded(id, sector, abatement, cost) ==
    [id |-> id, name |-> "Loaded", sector |-> sector,
     abatement_tco2 |-> Num(abatement), cost_per_tco2 |-> Num(cost),
     selected |-> TRUE, details |-> [mode |-> "none"]]

\* the measures of measures.csv, as the populate effect stores them
LoadedMeasures ==
    <<Loaded(1, "Power", 2, 1), Loaded(2, "Power", 3, 4), Loaded(3, "Steel", 1, -2)>>

InitFit ==
    /\ measures = LoadedMeasures
    /\ selectedSector = AllSectors
    /\ mode = "capacity"
    /\ carbonPrice = Zero
    /\ targetIntensityPct = Num(20)
    /\ baselines = [s \in {} |-> [annual_emissions |-> Zero]]
    /\ dataSources = LoadedData
    /\ call = NoCall
    /\ costModel = "step"
    /\ fitPositiveCostsOnly = FALSE
    /\ wizardOpen = FALSE
    /\ WizardInit

FitRows == 1..Len(LoadedMeasures)

NextFit ==
    \/ setCostModelStep
    \/ setCostModelFit
    \/ \E b \in BOOLEAN : SetFitPositiveCostsOnly(b)
    \/ \E j \in FitRows, b \in BOOLEAN : SetSelected(j, b)
    \/ \E j \in FitRows : SetAbatement(j, "0")
    \/ \E j \in FitRows : Delete(j)
    \/ \E s \in ViewSectors : SetSelectedSector(s)
    \/ \E m \in Modes : SetMode(m)
    \/ \E v \in CurveEmissions : SetBaselineEmissions(v)

SpecFit == InitFit /\ [][NextFit]_vars

(* irr as a function of its arguments: the session is at rest and a call   *)
(* of irr is evaluated.                                                    *)
IrrAmounts == {Num(-2), Num(0), Num(1), Num(5), PosInf, NaN}
IrrYears   == <<2020, 2021, 2022>>
\* the default lower bracket, and the rate at which 1 + r is 0
GuessLows  == {Fin(-9, 10), Num(-1)}

IrrCall(amounts, guessLow) ==
    [fn |-> "irr", amounts |-> amounts, years |-> IrrYears, baseYear |-> IrrYears[1],
     guessLow |-> guessLow, guessHigh |-> Num(3), tol |-> Fin(1, 1000000),
     maxIter |-> MaxIter, done |-> FALSE, result |-> IrrNull]

InitIrr ==
    /\ measures = <<>>
    /\ selectedSector = AllSectors
    /\ mode = "capacity"
    /\ carbonPrice = Zero
    /\ targetIntensityPct = Num(20)
    /\ baselines = [s \in {} |-> [annual_emissions |-> Zero]]
    /\ dataSources = LoadedData
    /\ costModel = "step"
    /\ fitPositiveCostsOnly = FALSE
    /\ call \in {IrrCall(a, g) : a \in [1..Len(IrrYears) -> IrrAmounts], g \in GuessLows}
    /\ wizardOpen = FALSE
    /\ WizardInit

\* the call returns
ApplyIrr ==
    /\ call.fn = "irr"
    /\ ~call.done
    /\ call' = [call EXCEPT !.done = TRUE,
                            !.result = irr(call.amounts, call.years, call.baseYear,
                                           call.guessLow, call.guessHigh, call.tol,
                                           call.maxIter)]
    /\ UNCHANGED <<measures, selectedSector, mode, carbonPrice, targetIntensityPct,
                   baselines, dataSources, costModel, fitPositiveCostsOnly,
                   wizardOpen, wizVars>>

NextIrr == ApplyIrr

SpecIrr == InitIrr /\ [][NextIrr]_vars

(* The renders: the user acts on the three loaded measures, or in a wizard *)
(* opened before any of that, and then the views, or the projector, are    *)
(* built twice.                                                            *)
NextViews ==
    \/ call = NoCall /\ measures = LoadedMeasures /\ mode = "capacity" /\ AddMeasure
    \/ call = NoCall /\ CloseWizard
    \/ call = NoCall /\ \E i \in EditYears, v \in {"5", "-1"} : SetOtherDirectT(i, v)
    \/ call = NoCall /\ \E i \in EditYears : UpdateFuelDelta(1, i, "3")
    \/ call = NoCall /\ \E j \in FitRows, b \in BOOLEAN : SetSelected(j, b)
    \/ call = NoCall /\ \E m \in Modes : SetMode(m)
    \/ call = NoCall /\ \E v \in CarbonPrices : SetCarbonPrice(v)
    \/ call = NoCall /\ setCostModelFit
    \/ BuildViews
    \/ RunProjector

SpecViews == InitFit /\ [][NextViews]_vars


(***************************************************************************)
(* CSV text.  A text is a sequence of pieces; a piece is one of the        *)
(* characters the CSV code tells apart (double quote, comma, line break,   *)
(* space) or a run of other characters.                                    *)
(***************************************************************************)
Quote     == "\""
Comma     == ","
LineBreak == "\n"
Space     == " "

\* the string a text spells
RECURSIVE StrOf(_)
StrOf(t) == IF t = <<>> THEN "" ELSE t[1] \o StrOf(Tail(t))

\* the texts of the strings that hold one of the four characters
SpecialTexts ==
    {<<"Kiln", Comma, "B">>, <<"Kiln", Quote>>, <<"Kiln", LineBreak, "B">>,
     <<Space, "Kiln">>, <<"Kiln", Space, "B">>}

\* the pieces of the string s
TextOf(s) ==
    IF s = "" THEN <<>>
    ELSE IF \E t \in SpecialTexts : StrOf(t) = s
         THEN CHOOSE t \in SpecialTexts : StrOf(t) = s
         ELSE <<s>>

\* String(x) of a number x
Decimals == {"0", "1", "2", "3", "4", "5", "-1", "-2"}
NumToStr(x) ==
    CASE x.k = "nan" -> "NaN"
      [] x.k = "inf" -> IF x.n > 0 THEN "Infinity" ELSE "-Infinity"
      [] OTHER       -> CHOOSE s \in Decimals : StrToNum(s) = x

\* String(b) of a boolean b
BoolToStr(b) == IF b THEN "true" ELSE "false"

\* a measure's details are truthy (an object) or absent
HasDetails(d) == d.mode # "none"
NoDetails == [mode |-> "none"]

\* JSON.stringify(d) of the details { mode: ... }
JsonStringify(d) == <<"{", Quote, "mode", Quote, ":", Quote, d.mode, Quote, "}">>

\* JSON.parse(s) within the try: the details whose JSON s is; when s is no
\* JSON the catch leaves the string where it was
JsonValues == {[mode |-> "quick"]}
JsonParse(s) ==
    IF \E d \in JsonValues : StrOf(JsonStringify(d)) = s
    THEN CHOOSE d \in JsonValues : StrOf(JsonStringify(d)) = s
    ELSE [mode |-> "text", text |-> s]

\* s.replace(/"/g, '""')
RECURSIVE DoubleQuotes(_)
DoubleQuotes(t) ==
    IF t = <<>> THEN <<>>
    ELSE (IF t[1] = Quote THEN <<Quote, Quote>> ELSE <<t[1]>>) \o DoubleQuotes(Tail(t))

\* esc(v), t being the text of String(v)
esc(t) ==
    IF \E i \in 1..Len(t) : t[i] \in {Quote, Comma, LineBreak}
    THEN <<Quote>> \o DoubleQuotes(t) \o <<Quote>>
    ELSE t

\* ts.join(sep)
RECURSIVE Join(_, _)
Join(ts, sep) ==
    IF ts = <<>> THEN <<>>
    ELSE IF Len(ts) = 1 THEN ts[1]
    ELSE ts[1] \o <<sep>> \o Join(Tail(ts), sep)

\* Object.keys of a measure without its id
CsvHeaders ==
    <<"name", "sector", "abatement_tco2", "cost_per_tco2", "selected", "details">>

\* the values of the row's attributes as texts, details stringified when truthy
\* and "" when absent
RowCells(m) ==
    <<TextOf(m.name), TextOf(m.sector), TextOf(NumToStr(m.abatement_tco2)),
      TextOf(NumToStr(m.cost_per_tco2)), TextOf(BoolToStr(m.selected)),
      IF HasDetails(m.details) THEN JsonStringify(m.details) ELSE <<>> >>

EscAll(ts) == [i \in 1..Len(ts) |-> esc(ts[i])]

jsonToCsv(arr) ==
    IF Len(arr) = 0 THEN <<>>
    ELSE LET headerLine == Join(EscAll([i \in 1..Len(CsvHeaders) |->
                                            TextOf(CsvHeaders[i])]), Comma)
             body == Join([i \in 1..Len(arr) |->
                              Join(EscAll(RowCells(arr[i])), Comma)], LineBreak)
         IN  headerLine \o <<LineBreak>> \o body

\* text.split(/\r?\n/), cur being the line under way
RECURSIVE SplitFrom(_, _, _)
SplitFrom(t, i, cur) ==
    IF i > Len(t) THEN <<cur>>
    ELSE IF t[i] = LineBreak THEN <<cur>> \o SplitFrom(t, i + 1, <<>>)
    ELSE SplitFrom(t, i + 1, cur \o <<t[i]>>)

\* s.trim()
RECURSIVE Trim(_)
Trim(t) ==
    IF t = <<>> THEN <<>>
    ELSE IF t[1] \in {Space, LineBreak} THEN Trim(Tail(t))
    ELSE IF Last(t) \in {Space, LineBreak} THEN Trim(Front(t))
    ELSE t

\* the loop of parseLine from position i
RECURSIVE ParseFrom(_, _, _, _, _)
ParseFrom(line, i, cur, inQuotes, result) ==
    IF i > Len(line) THEN result \o <<cur>>
    ELSE IF line[i] = Quote
         THEN IF inQuotes /\ i < Len(line) /\ line[i + 1] = Quote
              THEN ParseFrom(line, i + 2, cur \o <<Quote>>, inQuotes, result)
              ELSE ParseFrom(line, i + 1, cur, ~inQuotes, result)
    ELSE IF line[i] = Comma /\ ~inQuotes
         THEN ParseFrom(line, i + 1, <<>>, inQuotes, result \o <<cur>>)
    ELSE ParseFrom(line, i + 1, cur \o <<line[i]>>, inQuotes, result)

\* parseLine(line): the trimmed cells, as strings
CellsOf(r) == [k \in 1..Len(r) |-> StrOf(Trim(r[k]))]
parseLine(line) == CellsOf(ParseFrom(line, 1, <<>>, FALSE, <<>>))

\* obj[h] of a data line: the cell under the header h, "" when there is none
CellUnder(headers, cells, h) ==
    IF \E k \in 1..Len(headers) : headers[k] = h /\ k <= Len(cells)
    THEN cells[CHOOSE k \in 1..Len(headers) :
                   /\ headers[k] = h
                   /\ \A l \in 1..Len(headers) : headers[l] = h => l <= k]
    ELSE ""

\* the object csvToJson makes of a data line, read at the attributes importCSV
\* reads
ObjOf(headers, cells) ==
    [name |-> CellUnder(headers, cells, "name"),
     sector |-> CellUnder(headers, cells, "sector"),
     abatement_tco2 |-> CellUnder(headers, cells, "abatement_tco2"),
     cost_per_tco2 |-> CellUnder(headers, cells, "cost_per_tco2"),
     selected |-> CellUnder(headers, cells, "selected"),
     details |-> IF CellUnder(headers, cells, "details") = "" THEN NoDetails
                 ELSE JsonParse(CellUnder(headers, cells, "details"))]

IsBlankLine(ln) == Trim(ln) = <<>>

LinesOf(text) == SelectSeq(SplitFrom(text, 1, <<>>), LAMBDA ln : ~IsBlankLine(ln))

DataLines(lines, headers) ==
    [i \in 1..(Len(lines) - 1) |-> ObjOf(headers, parseLine(lines[i + 1]))]

csvToJson(text) ==
    IF Len(LinesOf(text)) = 0 THEN <<>>
    ELSE DataLines(LinesOf(text), parseLine(LinesOf(text)[1]))


(* The CSV file: a measure set is exported, the set is cleared or kept,    *)
(* and the saved file is imported.                                         *)

\* ({ id, ...rest }) => rest
WithoutId(m) ==
    [name |-> m.name, sector |-> m.sector, abatement_tco2 |-> m.abatement_tco2,
     cost_per_tco2 |-> m.cost_per_tco2, selected |-> m.selected,
     details |-> m.details]

\* "Export CSV": the text is saved as macc_measures.csv
exportCSV ==
    /\ ~wizardOpen
    /\ call' = [fn |-> "saveFile",
                rows |-> [i \in 1..Len(measures) |-> WithoutId(measures[i])],
                text |-> jsonToCsv([i \in 1..Len(measures) |-> WithoutId(measures[i])])]
    /\ UNCHANGED <<measures, selectedSector, mode, carbonPrice, targetIntensityPct,
                   baselines, dataSources, costModel, fitPositiveCostsOnly,
                   wizardOpen, wizVars>>

\* the file input's onChange with the saved file: reader.onload imports it
ImportSavedFile ==
    /\ call.fn = "saveFile"
    /\ importCSV(csvToJson(call.text))

CsvNames ==
    {"Kiln", "", StrOf(<<"Kiln", Comma, "B">>), StrOf(<<"Kiln", Quote>>),
     StrOf(<<"Kiln", LineBreak, "B">>), StrOf(<<Space, "Kiln">>),
     StrOf(<<"Kiln", Space, "B">>)}

\* a wizard-made measure of the name, and an imported one without details
WizardMade(name) ==
    [name |-> name, sector |-> "Power", abatement_tco2 |-> Num(2),
     cost_per_tco2 |-> Num(-1), selected |-> TRUE, details |-> [mode |-> "quick"]]
ImportMade(name) ==
    [name |-> name, sector |-> "Steel", abatement_tco2 |-> Zero,
     cost_per_tco2 |-> NaN, selected |-> FALSE, details |-> NoDetails]

CsvMeasures == {WizardMade(n) : n \in CsvNames} \cup {ImportMade(n) : n \in CsvNames}

\* the stored measure of the attributes r: { id, ...obj }
Stored(r, id) ==
    [id |-> id, name |-> r.name, sector |-> r.sector,
     abatement_tco2 |-> r.abatement_tco2, cost_per_tco2 |-> r.cost_per_tco2,
     selected |-> r.selected, details |-> r.details]

CsvSets ==
    UNION {{[i \in 1..n |-> Stored(f[i], i)] : f \in [1..n -> CsvMeasures]}
             : n \in 0..MaxMeasures}

InitCsv ==
    /\ measures \in CsvSets
    /\ selectedSector = AllSectors
    /\ mode = "capacity"
    /\ carbonPrice = Zero
    /\ targetIntensityPct = Num(20)
    /\ baselines = [s \in {} |-> [annual_emissions |-> Zero]]
    /\ dataSources = LoadedData
    /\ costModel = "step"
    /\ fitPositiveCostsOnly = FALSE
    /\ call = NoCall
    /\ wizardOpen = FALSE
    /\ WizardInit

NextCsv ==
    \/ exportCSV
    \/ \E ok \in BOOLEAN : clearAll(ok)
    \/ ImportSavedFile

SpecCsv == InitCsv /\ [][NextCsv]_vars


(* The adoption profile: entries are typed, the row is interpolated, and   *)
(* the template is saved.                                                  *)
AdoptionYears == {i \in YearIdx : YEARS[i] \in {2020, 2030, 2035, 2050}}

NextAdoption ==
    \/ measures = <<>> /\ AddMeasure
    \/ CloseWizard
    \/ \E i \in AdoptionYears, v \in {"", "0", "1", "2"} : SetAdoption(i, v)
    \/ InterpolateAdoption
    \/ \E i \in EditYears : SetOtherDirectT(i, "5")
    \/ \E ok \in BOOLEAN : saveTemplate(ok)

SpecAdoption == Init /\ [][NextAdoption]_vars


(* irr statement by statement: the call computes the endpoint NPVs, then   *)
(* bisects while it < maxIter, then returns.                               *)
RunAmounts == {Num(-10), Num(-2), Num(0), Num(1), Num(5), NaN}
RunYears   == <<2020, 2021>>

\* (lo + hi) / 2
Midpoint(lo, hi) == JsDiv(JsAdd(lo, hi), Num(2))

\* the rates a bisection of [lo, hi] can reach within n halvings, ends included
RECURSIVE BisectionRates(_, _, _)
BisectionRates(lo, hi, n) ==
    IF n = 0 THEN {lo, hi}
    ELSE BisectionRates(lo, Midpoint(lo, hi), n - 1)
         \cup BisectionRates(Midpoint(lo, hi), hi, n - 1)

RunFlows == [1..Len(RunYears) -> RunAmounts]
RunRates == UNION {BisectionRates(g, Num(3), MaxIter + 1) : g \in GuessLows}

\* const f = (r) => npv(r, amounts, years, baseYear), for the flows and over the
\* rates of a run; @@ <<>> has the table worked out once, as an explicit function
f == [a \in RunFlows, r \in RunRates |-> npv(r, a, RunYears, RunYears[1])] @@ <<>>

\* a faulty loop test: it <= maxIter
LoopGoesOnOnceMore(it, maxIter) == it <= maxIter

\* the loop test: it < maxIter
LoopGoesOn(it, maxIter) == it < maxIter

\* the call of irr at its first statement, with the default upper bracket and
\* tolerance
IrrRun(amounts, guessLow) ==
    [fn |-> "irrRun", amounts |-> amounts, years |-> RunYears,
     baseYear |-> RunYears[1], guessLow |-> guessLow, guessHigh |-> Num(3),
     tol |-> Fin(1, 1000000), maxIter |-> MaxIter,
     pc |-> "start", lo |-> guessLow, hi |-> Num(3), fLo |-> Zero, fHi |-> Zero,
     it |-> 0, result |-> IrrNull]

InitIrrRun ==
    /\ measures = <<>>
    /\ selectedSector = AllSectors
    /\ mode = "capacity"
    /\ carbonPrice = Zero
    /\ targetIntensityPct = Num(20)
    /\ baselines = [s \in {} |-> [annual_emissions |-> Zero]]
    /\ dataSources = LoadedData
    /\ costModel = "step"
    /\ fitPositiveCostsOnly = FALSE
    /\ call \in {IrrRun(a, g) : a \in RunFlows, g \in GuessLows}
    /\ wizardOpen = FALSE
    /\ WizardInit

\* the call goes on to c and nothing else changes
CallBecomes(c) ==
    /\ call' = c
    /\ UNCHANGED <<measures, selectedSector, mode, carbonPrice, targetIntensityPct,
                   baselines, dataSources, costModel, fitPositiveCostsOnly,
                   wizardOpen, wizVars>>

\* the statements before the loop, fLo and fHi being the endpoint NPVs
IrrEnterWith(fLo, fHi) ==
    IF IsNaN(fLo) \/ IsNaN(fHi) \/ JsGT(JsMul(fLo, fHi), Zero)
    THEN CallBecomes([call EXCEPT !.pc = "done", !.fLo = fLo, !.fHi = fHi,
                                  !.result = IrrNull])
    ELSE CallBecomes([call EXCEPT !.pc = "loop", !.fLo = fLo, !.fHi = fHi])

IrrEnter ==
    /\ call.fn = "irrRun"
    /\ call.pc = "start"
    /\ \E fLo \in {f[call.amounts, call.lo]}, fHi \in {f[call.amounts, call.hi]} :
          IrrEnterWith(fLo, fHi)

\* one pass of the loop body, mid and fMid being bound
IrrIterateWith(mid, fMid) ==
    IF JsLT(JsAbs(fMid), call.tol)
    THEN CallBecomes([call EXCEPT !.pc = "done", !.result = IrrOf(mid)])
    ELSE IF JsLT(JsMul(call.fLo, fMid), Zero)
         THEN CallBecomes([call EXCEPT !.hi = mid, !.fHi = fMid, !.it = call.it + 1])
         ELSE CallBecomes([call EXCEPT !.lo = mid, !.fLo = fMid, !.it = call.it + 1])

IrrIterate ==
    /\ call.fn = "irrRun"
    /\ call.pc = "loop"
    /\ LoopGoesOn(call.it, call.maxIter)
    /\ \E mid \in {Midpoint(call.lo, call.hi)} :
          \E fMid \in {f[call.amounts, mid]} : IrrIterateWith(mid, fMid)

\* the return after the loop
IrrRunOut ==
    /\ call.fn = "irrRun"
    /\ call.pc = "loop"
    /\ ~LoopGoesOn(call.it, call.maxIter)
    /\ \E mid \in {Midpoint(call.lo, call.hi)} :
          CallBecomes([call EXCEPT !.pc = "done", !.result = IrrOf(mid)])

NextIrrRun == IrrEnter \/ IrrIterate \/ IrrRunOut

\* the call is never held up: a statement that can run does
SpecIrrRun == InitIrrRun /\ [][NextIrrRun]_vars /\ WF_vars(NextIrrRun)


(* The driver lists: lines added, removed and patched during one wizard    *)
(* session, one list at a time.                                            *)
LineLists == {"fuel", "raw", "transport", "waste", "electricity"}

ListOf(which) ==
    CASE which = "fuel" -> fuelLines
      [] which = "raw" -> rawLines
      [] which = "transport" -> transLines
      [] which = "waste" -> wasteLines
      [] which = "electricity" -> elecLines

\* the sample line of the list's Add button
SampleOf(which) ==
    CASE which = "fuel" -> SampleLine(DS_FUELS)
      [] which = "raw" -> SampleLine(DS_RAW)
      [] which = "transport" -> SampleLine(DS_TRANSPORT)
      [] which = "waste" -> SampleLine(DS_WASTE)
      [] which = "electricity" ->
            [state |-> InitialElecLine.state, priceOv |-> Null,
             priceEscPctYr |-> Zero, efEscPctYr |-> Zero,
             efOvPerYear |-> makeEmptyEf, deltaMWh |-> makeZeros]

\* { ...a, ...b }: the fields of b, and those of a that b has not
Spread(a, b) ==
    [k \in DOMAIN a \cup DOMAIN b |-> IF k \in DOMAIN b THEN b[k] ELSE a[k]]

\* a faulty id: one more than the number of lines
nextIdByLength(list) == Len(list) + 1
\* const nextId = Math.max(0, ...list.map(l => l.id)) + 1
nextId(list) == MaxId(list) + 1

\* setList([...list, { id: nextId, ...sample }])
addLine(list, sample) == Append(list, Spread([id |-> nextId(list)], sample))

\* setList(list.filter(l => l.id !== id))
removeLine(list, id) == SelectSeq(list, LAMBDA l : l.id # id)

\* setList(list.map(l => l.id === id ? { ...l, ...patch } : l))
updateLine(list, id, patch) ==
    [k \in 1..Len(list) |-> IF list[k].id = id THEN Spread(list[k], patch) ELSE list[k]]

\* setList of the list which, the other wizard inputs being left alone
SetLines(which, new) ==
    /\ wizardOpen
    /\ fuelLines'  = IF which = "fuel" THEN new ELSE fuelLines
    /\ rawLines'   = IF which = "raw" THEN new ELSE rawLines
    /\ transLines' = IF which = "transport" THEN new ELSE transLines
    /\ wasteLines' = IF which = "waste" THEN new ELSE wasteLines
    /\ elecLines'  = IF which = "electricity" THEN new ELSE elecLines
    /\ UNCHANGED <<appVars, wizardOpen, applyCarbonPriceInSave, meta, adoption,
                   otherDirectT, stack, wizEdits>>

\* the list's Add button
AddLine(which) ==
    /\ Len(ListOf(which)) < MaxLines
    /\ nextId(ListOf(which)) <= MaxLineId
    /\ SetLines(which, addLine(ListOf(which), SampleOf(which)))

\* the Remove button of the line id
RemoveLine(which, id) ==
    /\ \E k \in 1..Len(ListOf(which)) : ListOf(which)[k].id = id
    /\ SetLines(which, removeLine(ListOf(which), id))

\* an input of the line id: its onChange passes the patch
UpdateLine(which, id, patch) ==
    /\ \E k \in 1..Len(ListOf(which)) : ListOf(which)[k].id = id
    /\ SetLines(which, updateLine(ListOf(which), id, patch))

\* the patches of the price escalation and the price override inputs
LinePatches == {[priceEscPctYr |-> Num(2)], [priceOv |-> Num(4)]}

\* the lists but which are as the wizard mounted them
OthersAsMounted(which) ==
    \A w \in LineLists \ {which} : ListOf(w) = <<Spread([id |-> 1], SampleOf(w))>>

NextLines ==
    \/ measures = <<>> /\ AddMeasure
    \/ CloseWizard
    \/ \E which \in LineLists : OthersAsMounted(which) /\ AddLine(which)
    \/ \E which \in LineLists, id \in 1..MaxLineId :
          OthersAsMounted(which) /\ RemoveLine(which, id)
    \/ \E which \in LineLists, id \in 1..MaxLineId, patch \in LinePatches :
          OthersAsMounted(which) /\ UpdateLine(which, id, patch)

SpecLines == Init /\ [][NextLines]_vars


(* interpolateSeries: a call on every series of up to MaxSeriesLen entries, *)
(* and a second call on what the first returned.                           *)
SeriesEntries == {Blank, NaN, PosInf, Num(0), Num(4)}
SeriesInputs  == UNION {[1..n -> SeriesEntries] : n \in 0..MaxSeriesLen}

InterpolateRun(series) ==
    [fn |-> "interpolateSeries", given |-> series, series |-> series, pc |-> "start",
     result |-> <<>>, again |-> <<>>]

InitInterpolate ==
    /\ measures = <<>>
    /\ selectedSector = AllSectors
    /\ mode = "capacity"
    /\ carbonPrice = Zero
    /\ targetIntensityPct = Num(20)
    /\ baselines = [s \in {} |-> [annual_emissions |-> Zero]]
    /\ dataSources = LoadedData
    /\ costModel = "step"
    /\ fitPositiveCostsOnly = FALSE
    /\ call \in {InterpolateRun(s) : s \in SeriesInputs}
    /\ wizardOpen = FALSE
    /\ WizardInit

\* interpolateSeries(series): the result is a new array
InterpolateCall ==
    /\ call.fn = "interpolateSeries"
    /\ call.pc = "start"
    /\ CallBecomes([call EXCEPT !.pc = "returned",
                                !.result = interpolateSeries(call.series)])

\* interpolateSeries on the array the first call returned
InterpolateAgain ==
    /\ call.fn = "interpolateSeries"
    /\ call.pc = "returned"
    /\ CallBecomes([call EXCEPT !.pc = "again",
                                !.again = interpolateSeries(call.result)])

NextInterpolate == InterpolateCall \/ InterpolateAgain

SpecInterpolate == InitInterpolate /\ [][NextInterpolate]_vars


(* Start-up: the component mounts with or without a persisted measure set, *)
(* the data-fetch effect runs, the fetches settle and the bodies are read. *)
\* the files of public/data in the order the effect fetches and tests them
DataFiles ==
    <<"measures.csv", "sectors.json", "baselines.json", "fuels.json", "raw.json",
      "transport.json", "waste.json", "electricity.json">>

\* what becomes of a file: the fetch rejects, the response is not ok, the body
\* is no JSON, or all is well; the text of measures.csv is always read
FileFates == {"ok", "rejected", "notOk", "badJson"}

AllOk == [i \in 1..Len(DataFiles) |-> "ok"]

\* the server's files: all well, or one of them failing
Fates ==
    {AllOk} \cup {[AllOk EXCEPT ![i] = fate] :
                     i \in 1..Len(DataFiles), fate \in FileFates \ {"ok"}}

\* the item macc_measures of localStorage: absent or "null", a stored measure
\* set, or a text JSON.parse rejects (useLocalStorage then starts from null)
NothingStored == [kind |-> "null", value |-> <<>>]
StoredSets ==
    {NothingStored, [kind |-> "corrupt", value |-> <<>>],
     [kind |-> "json", value |-> <<>>],
     [kind |-> "json", value |-> <<Loaded(1, "Steel", 5, 2)>>]}

\* what measures.csv and sectors.json hold
CsvContents     == {<<>>, LoadedMeasures}
SectorsContents == {<<>>, <<"Power", "Steel">>}

NoError == <<>>

\* useState's initial dataSources
InitialDataSources ==
    Spread(EmptyTables, [sectors |-> <<>>, measures |-> <<>>,
                         baselines |-> [s \in {} |-> [annual_emissions |-> Zero]]])

\* the component at its first render: the state of the start-up, with what the
\* storage and the server hold
StartUp(stored, fates, csv, sectors) ==
    [fn |-> "startup", pc |-> "mounted", localMeasures |-> stored, fates |-> fates,
     csv |-> csv, sectors |-> sectors, requested |-> {},
     dataLoaded |-> FALSE, dataError |-> NoError]

dataLoaded == call.dataLoaded
dataError  == call.dataError

\* the render guards: the spinner, the error box, the application
Screen ==
    IF ~dataLoaded THEN "loading" ELSE IF dataError # NoError THEN "error" ELSE "app"

\* a faulty test: an empty stored set counts as none
NothingOrEmptyStored(lm) == lm.kind = "null" \/ lm.value = <<>>
\* !localMeasures || localMeasures === "null"
NoLocalMeasures(lm) == lm.kind = "null"

InitStartUp ==
    /\ measures \in {s.value : s \in StoredSets}
    /\ selectedSector = AllSectors
    /\ mode = "capacity"
    /\ carbonPrice = Zero
    /\ targetIntensityPct = Num(20)
    /\ baselines = [s \in {} |-> [annual_emissions |-> Zero]]
    /\ dataSources = InitialDataSources
    /\ costModel = "step"
    /\ fitPositiveCostsOnly = FALSE
    /\ call \in {StartUp(stored, fates, csv, sectors) :
                    stored \in {s \in StoredSets : s.value = measures},
                    fates \in Fates, csv \in CsvContents, sectors \in SectorsContents}
    /\ wizardOpen = FALSE
    /\ WizardInit

\* the start-up goes on to c, measures and dataSources being set to ms and ds
StartUpBecomes(c, ms, ds) ==
    /\ call' = c
    /\ measures' = ms
    /\ dataSources' = ds
    /\ UNCHANGED <<selectedSector, mode, carbonPrice, targetIntensityPct, baselines,
                   costModel, fitPositiveCostsOnly, wizardOpen, wizVars>>

\* useLocalStorage's effect, which runs before the data-fetch effect:
\* localStorage.setItem(key, JSON.stringify(value)), the value being null unless
\* the item was a stored set
Rewritten(lm) == IF lm.kind = "json" THEN lm ELSE NothingStored

\* the files fetchData() requests without stored measures, and those
\* loadDataFromLocalStorage() requests, which leaves measures.csv alone
RequestedFor(lm) ==
    IF NoLocalMeasures(lm) THEN 1..Len(DataFiles) ELSE 2..Len(DataFiles)

\* the effects of the first render: the item is rewritten, the data-fetch effect
\* reads it and starts the fetches
FetchEffect ==
    /\ call.fn = "startup"
    /\ call.pc = "mounted"
    /\ StartUpBecomes([call EXCEPT !.pc = "fetching",
                                   !.localMeasures = Rewritten(call.localMeasures),
                                   !.requested = RequestedFor(Rewritten(call.localMeasures))],
                      measures, dataSources)

\* the first requested file of the fate, 0 if there is none
FirstOf(requested, fates, fate) ==
    IF \E i \in requested : fates[i] = fate
    THEN CHOOSE i \in requested :
            fates[i] = fate /\ \A k \in requested : fates[k] = fate => i <= k
    ELSE 0

\* catch (error) and what follows it: setDataError(...), setDataLoaded(true)
Caught(i, why) ==
    StartUpBecomes([call EXCEPT !.pc = "done", !.dataLoaded = TRUE,
                                !.dataError = <<"Failed to load", DataFiles[i], why>>],
                   measures, dataSources)

\* Promise.all settles: it rejects if a fetch rejected; else the responses are
\* tested for ok in turn, and the first that is not throws
ResponsesArrive ==
    /\ call.fn = "startup"
    /\ call.pc = "fetching"
    /\ IF FirstOf(call.requested, call.fates, "rejected") # 0
       THEN Caught(FirstOf(call.requested, call.fates, "rejected"), "rejected")
       ELSE IF FirstOf(call.requested, call.fates, "notOk") # 0
            THEN Caught(FirstOf(call.requested, call.fates, "notOk"), "not ok")
            ELSE StartUpBecomes([call EXCEPT !.pc = "reading"], measures, dataSources)

\* the measures the effect hands to setDataSources: those of measures.csv, or
\* the stored ones
SourceMeasures ==
    IF 1 \in call.requested THEN call.csv ELSE call.localMeasures.value

\* setDataSources({ sectors, baselines, measures, fuels, ... })
FetchedDataSources ==
    Spread(LoadedData, [sectors |-> call.sectors, measures |-> SourceMeasures,
                        baselines |-> [s \in {} |-> [annual_emissions |-> Zero]]])

\* the populate effect on the data sources ds: setMeasures(ds.measures) if there
\* are sectors and measures
Populated(ds) ==
    IF Len(ds.sectors) > 0 /\ Len(ds.measures) > 0 THEN ds.measures ELSE measures

\* the bodies are read: a body that is no JSON throws; else the data sources are
\* set, the error is cleared, loading is over and the populate effect runs
BodiesRead ==
    /\ call.fn = "startup"
    /\ call.pc = "reading"
    /\ IF FirstOf(call.requested \ {1}, call.fates, "badJson") # 0
       THEN Caught(FirstOf(call.requested \ {1}, call.fates, "badJson"), "no JSON")
       ELSE StartUpBecomes([call EXCEPT !.pc = "done", !.dataLoaded = TRUE,
                                        !.dataError = NoError],
                           Populated(FetchedDataSources), FetchedDataSources)

NextStartUp == FetchEffect \/ ResponsesArrive \/ BodiesRead

\* the effect runs after the first render, and every fetch and every body read
\* settles, by resolving or by rejecting
SpecStartUp == InitStartUp /\ [][NextStartUp]_vars /\ WF_vars(NextStartUp)


(***************************************************************************)
(* Properties of the curve, checked under SpecCurve.                       *)
(***************************************************************************)
\* the measure is on the screen's curve: selected, and of the viewed sector
Shown(m) ==
    m.selected /\ (selectedSector = AllSectors \/ m.sector = selectedSector)

\* the measure's abatement is finite and > 0
AbatementOk(m) == IsFinite(m.abatement_tco2) /\ JsGT(m.abatement_tco2, Zero)

\* the measure's cost minus the carbon price is not +Infinity or -Infinity
CostNotInfinite(m) ==
    JsSub(OrZero(m.cost_per_tco2), OrZero(carbonPrice)).k # "inf"

\* the sum of abatement_tco2 over the measures i of s with keep[i]
RECURSIVE SumAbatement(_, _)
SumAbatement(s, keep) ==
    IF s = <<>> THEN Zero
    ELSE LET rest == SumAbatement(Front(s), keep)
         IN  IF keep[Len(s)] THEN JsAdd(rest, Last(s).abatement_tco2) ELSE rest

\* how many segments carry the id
SegmentCount(id) == Cardinality({k \in 1..Len(segments) : segments[k].id = id})

\* C1: the segments are contiguous: the first starts at 0, every segment ends
\* where the next one starts, and none ends before it starts
C1_Contiguous ==
    /\ segments # <<>> => segments[1].x1_plot = Zero
    /\ \A i \in 1..(Len(segments) - 1) : segments[i].x2_plot = segments[i + 1].x1_plot
    /\ \A i \in 1..Len(segments) : JsLE(segments[i].x1_plot, segments[i].x2_plot)

\* two segments on the intensity axis, the second starting right of 0
C1_Witness ==
    /\ mode = "intensity"
    /\ Len(segments) >= 2
    /\ JsGT(segments[2].x1_plot, Zero)
    /\ JsGT(segments[2].x2_plot, segments[2].x1_plot)

\* C2: in capacity mode the total width of the curve is the sum of abatement_tco2
\* over the selected, sector-matching measures whose abatement is finite and
\* > 0; 0 when there is none
C2_WidthIsSumOverPositive ==
    mode = "capacity" =>
        totalX = SumAbatement(measures,
                     [i \in 1..Len(measures) |->
                         Shown(measures[i]) /\ AbatementOk(measures[i])])

\* what the walk does instead: the sum leaves out the measures whose cost minus
\* the carbon price is infinite, which the walk skips as well
WidthWithoutInfiniteCosts ==
    mode = "capacity" =>
        totalX = SumAbatement(measures,
                     [i \in 1..Len(measures) |->
                         /\ Shown(measures[i])
                         /\ AbatementOk(measures[i])
                         /\ CostNotInfinite(measures[i])])

\* C3: the segments' heights never decrease from left to right, and a segment's
\* height is its measure's cost_per_tco2 (0 when that is not a number) minus the
\* carbon price
C3_CostOrder ==
    /\ \A i \in 1..(Len(segments) - 1) : JsLE(segments[i].cost, segments[i + 1].cost)
    /\ \A i \in 1..Len(segments) :
          \E j \in 1..Len(measures) :
             /\ measures[j].id = segments[i].id
             /\ segments[i].cost = JsSub(OrZero(measures[j].cost_per_tco2), carbonPrice)

\* under a carbon price, the measure saved later stands first, being cheaper
C3_Witness ==
    /\ carbonPrice # Zero
    /\ Len(segments) >= 2
    /\ segments[1].id > segments[2].id
    /\ JsLT(segments[1].cost, segments[2].cost)

\* C8: a measure has a segment iff it is selected, its sector matches the filter
\* and its abatement is finite and > 0, and then it has exactly one
C8_SegmentIffPositive ==
    \A i \in 1..Len(measures) :
        SegmentCount(measures[i].id) =
            IF Shown(measures[i]) /\ AbatementOk(measures[i]) THEN 1 ELSE 0

\* what the walk does instead: the measure must also have a cost minus the
\* carbon price that is not infinite; it then has exactly one segment, and no
\* segment is of another id
SegmentIffWithoutInfiniteCosts ==
    /\ \A i \in 1..Len(measures) :
          SegmentCount(measures[i].id) =
              IF /\ Shown(measures[i])
                 /\ AbatementOk(measures[i])
                 /\ CostNotInfinite(measures[i])
              THEN 1 ELSE 0
    /\ \A k \in 1..Len(segments) :
          \E i \in 1..Len(measures) : measures[i].id = segments[k].id

(***************************************************************************)
(* Properties of the measure set, checked under Spec.                      *)
(***************************************************************************)
\* C4: no two measures of the measure set have the same id
C4_IdsUnique ==
    \A i, j \in 1..Len(measures) : i # j => measures[i].id # measures[j].id

(***************************************************************************)
(* Properties of budget-to-target, checked under SpecBudget.               *)
(***************************************************************************)
\* the total positive abatement of the shown measures, in tonnes
TotalPositiveAbatement ==
    SumAbatement(measures,
        [i \in 1..Len(measures) |-> Shown(measures[i]) /\ AbatementOk(measures[i])])

\* C5, for a baseline with emissions E > 0: targetReached is at most the target
\* in the view's unit (E * pct / 100 tonnes in capacity mode, pct percent in
\* intensity mode) and at most the total positive abatement in that unit
C5_ReachedWithinTarget ==
    LET E   == activeBaseline.annual_emissions
        pct == targetIntensityPct
    IN  JsGT(E, Zero) =>
          IF mode = "capacity"
          THEN /\ JsLE(budgetToTarget.targetReached, JsMul(E, JsDiv(pct, Num(100))))
               /\ JsLE(budgetToTarget.targetReached, TotalPositiveAbatement)
          ELSE /\ JsLE(budgetToTarget.targetReached, pct)
               /\ JsLE(budgetToTarget.targetReached,
                       JsMul(JsDiv(TotalPositiveAbatement, E), Num(100)))

\* every measure the walk sees has an effective cost > 0
AllCostsPositive ==
    \A k \in 1..Len(maccData) : JsGT(maccData[k].cost, Zero)

\* C6: for targets t1 <= t2 the reached quantity of t1 is at most that of t2,
\* and so is the budget when every effective cost is > 0
C6_MonotoneInTarget ==
    \A t1, t2 \in Targets :
        t1 <= t2 =>
          /\ JsLE(BudgetAt(Num(t1)).targetReached, BudgetAt(Num(t2)).targetReached)
          /\ AllCostsPositive =>
                JsLE(BudgetAt(Num(t1)).budget, BudgetAt(Num(t2)).budget)

(***************************************************************************)
(* Properties of the wizard's projector, checked under SpecWizard.         *)
(***************************************************************************)
IsTemplate(m) == m.details.mode = "template_db_multiline"

\* the year record a template measure names its representative
RepYear(m) == m.details.per_year[m.details.representative_index + 1]

\* C7: a measure with multi-year detail has the abatement (a negative direct_t
\* counting as 0) and the cost of the year record its detail names the
\* representative
C7_RepresentativeMatches ==
    \A i \in 1..Len(measures) :
        IsTemplate(measures[i]) =>
          /\ measures[i].abatement_tco2 = JsMax(Zero, RepYear(measures[i]).direct_t)
          /\ measures[i].cost_per_tco2 =
                IF measures[i].details.saved_cost_includes_carbon_price
                THEN RepYear(measures[i]).implied_cost_per_t_w
                ELSE RepYear(measures[i]).implied_cost_per_t_wo

\* ri is an index of the year list: the smallest whose year has direct_t > 0,
\* or that of 2035, which is 3, when no year has
FirstPositiveOr2035(py, ri) ==
    /\ ri \in 0..(Len(YEARS) - 1)
    /\ IF \E i \in YearIdx : JsGT(py[i].direct_t, Zero)
       THEN /\ JsGT(py[ri + 1].direct_t, Zero)
            /\ \A j \in 1..ri : ~JsGT(py[j].direct_t, Zero)
       ELSE ri = 3 /\ YEARS[ri + 1] = 2035

RepIdxOfProjector(c) == FirstPositiveOr2035(c.perYear, c.repIdx)

ZeroGuard(py) ==
    \A i \in YearIdx :
        JsLE(py[i].direct_t, Zero) =>
           /\ py[i].implied_cost_per_t_wo = Zero
           /\ py[i].implied_cost_per_t_w = Zero

\* a step that adds a template measure whose representative year has
\* direct_t <= 0 adds it with cost_per_tco2 = 0
SavedWithZeroCost ==
    Len(measures') = Len(measures) + 1 =>
        LET m == measures'[Len(measures')]
        IN  (IsTemplate(m) /\ JsLE(RepYear(m).direct_t, Zero)) =>
                m.cost_per_tco2 = Zero

\* C10: in every year record of the projector direct_t <= 0 makes the implied
\* cost per tonne, with and without the carbon price, exactly 0, whatever the net
\* cost; and a measure whose representative year has direct_t <= 0 is saved with
\* cost_per_tco2 = 0
C10_ZeroGuard ==
    /\ [](wizardOpen => ZeroGuard(computed.perYear))
    /\ [][SavedWithZeroCost]_vars

\* a template measure saved with cost 0 from a representative year that abates
\* nothing and has a net cost
C10_Witness ==
    \E i \in 1..Len(measures) :
        /\ IsTemplate(measures[i])
        /\ JsLE(RepYear(measures[i]).direct_t, Zero)
        /\ RepYear(measures[i]).net_cost_cr # Zero
        /\ measures[i].cost_per_tco2 = Zero

(***************************************************************************)
(* Properties of the driver lines, checked under SpecDrivers.              *)
(***************************************************************************)
\* the adoption fraction the projector uses in year i
AdoptionOf(i) == JsMax(Zero, JsMin(Num(1), OrZero(adoption[i])))

NothingAdded == [t |-> Zero, cr |-> Zero]

\* a line of a unit-priced category that names no row of the table and has
\* neither override
UnitLineWithoutRow(ln, table) ==
    /\ ~\E k \in 1..Len(table) : table[k].name = ln.name
    /\ ln.priceOv = Null
    /\ ln.efOv = Null

\* an electricity line whose state is no row of the table and that has no
\* price override and no EF override in any year
ElecLineWithoutRow(ln) ==
    /\ ~\E k \in 1..Len(DS_ELECTRICITY) : DS_ELECTRICITY[k].state = ln.state
    /\ ln.priceOv = Null
    /\ \A i \in YearIdx : ln.efOvPerYear[i] \in {Blank, Null}

\* the lines of the list without a reference row add nothing in any year
UnitLinesAddNothing(lines, table) ==
    \A k \in 1..Len(lines), i \in YearIdx :
        UnitLineWithoutRow(lines[k], table) =>
            DriverLine(lines[k], table, AdoptionOf(i), i) = NothingAdded

ElecLinesAddNothing ==
    \A k \in 1..Len(elecLines), i \in YearIdx :
        ElecLineWithoutRow(elecLines[k]) =>
            ElecLine(elecLines[k], AdoptionOf(i), i) = NothingAdded

\* the four unit-priced categories: a line without a reference row and without
\* overrides adds 0 tonnes and 0 driver cost in every year
MissingUnitRowAddsNothing ==
    wizardOpen =>
        /\ UnitLinesAddNothing(fuelLines, DS_FUELS)
        /\ UnitLinesAddNothing(rawLines, DS_RAW)
        /\ UnitLinesAddNothing(transLines, DS_TRANSPORT)
        /\ UnitLinesAddNothing(wasteLines, DS_WASTE)

\* C11: in all five categories a driver line whose name (for electricity,
\* state) is no row of the reference table and that has no overrides adds 0
\* tonnes and 0 driver cost in every year, and every year of the measure is
\* still computed to finite numbers
C11_MissingRowAddsNothing ==
    wizardOpen =>
        /\ UnitLinesAddNothing(fuelLines, DS_FUELS)
        /\ UnitLinesAddNothing(rawLines, DS_RAW)
        /\ UnitLinesAddNothing(transLines, DS_TRANSPORT)
        /\ UnitLinesAddNothing(wasteLines, DS_WASTE)
        /\ ElecLinesAddNothing
        /\ \A i \in YearIdx : /\ IsFinite(computed.perYear[i].direct_t)
                               /\ IsFinite(computed.perYear[i].net_cost_cr)

(***************************************************************************)
(* Properties of non-numeric input, checked under SpecCurve.               *)
(***************************************************************************)
\* the stored measures hold no NaN in abatement_tco2 or cost_per_tco2
NoNaNStored ==
    \A i \in 1..Len(measures) :
        /\ ~IsNaN(measures[i].abatement_tco2)
        /\ ~IsNaN(measures[i].cost_per_tco2)

\* the cumulative abatement the curve walk ends with counts a non-finite
\* abatement as 0: it is the sum of the finite abatements > 0 of the shown
\* measures
NonFiniteCountsAsZero ==
    maccData # <<>> => Last(maccData).cumAbate = TotalPositiveAbatement

\* C12: a non-numeric, NaN or Infinity value of a CSV field counts as 0 when the
\* curve accumulates abatement, and no stored measure has NaN in abatement_tco2
\* or cost_per_tco2
C12_NonNumbersCountAsZero == NonFiniteCountsAsZero /\ NoNaNStored

(***************************************************************************)
(* Properties of the quadratic fit, checked under SpecFit.                 *)
(***************************************************************************)
\* the fit is degenerate: fewer than 3 points to fit, or a determinant of the
\* normal equations within 1e-12 of zero
FitDegenerate ==
    \/ Len(dataToFit) < 3
    \/ BelowTolerance(NormalDet([i \in 1..Len(dataToFit) |-> dataToFit[i].x]))

\* with fewer than 3 points to fit the chart shows the step view, and the
\* effect has set the cost model back to step
TooFewPointsNotShown ==
    /\ Len(dataToFit) = FitPoints(measures, selectedSector, carbonPrice,
                                  fitPositiveCostsOnly)
    /\ Len(dataToFit) < 3 => ~fitChartShown /\ costModel = "step"

\* C13: whenever the quadratic fit is degenerate the chart shows the step view,
\* not a fitted curve
C13_DegenerateFitNotShown == FitDegenerate => ~fitChartShown

(***************************************************************************)
(* Properties of irr, checked under SpecIrr.                               *)
(***************************************************************************)
\* the NPVs at the two bracket endpoints of the call
EndpointLow  == npv(call.guessLow, call.amounts, call.years, call.baseYear)
EndpointHigh == npv(call.guessHigh, call.amounts, call.years, call.baseYear)

SameStrictSign(a, b) ==
    \/ JsGT(a, Zero) /\ JsGT(b, Zero)
    \/ JsLT(a, Zero) /\ JsLT(b, Zero)

\* irr returned null for endpoint NPVs of the same strict sign, and for a NaN
\* endpoint
NullOnSameSignOrNaN ==
    (/\ call.fn = "irr"
     /\ call.done
     /\ \/ SameStrictSign(EndpointLow, EndpointHigh)
        \/ IsNaN(EndpointLow)
        \/ IsNaN(EndpointHigh)) => call.result.isNull

\* with the default bracket -0.9 .. 3.0 irr returned null for every endpoint NPV
\* that is not finite
NullAtDefaultBracket ==
    (/\ call.fn = "irr"
     /\ call.done
     /\ call.guessLow = Fin(-9, 10)
     /\ \/ ~IsFinite(EndpointLow)
        \/ ~IsFinite(EndpointHigh)) => call.result.isNull

\* C14: irr returned null whenever the NPVs at the two bracket endpoints have the
\* same strict sign, and whenever either of them is NaN, +Infinity or -Infinity
C14_IrrNotFound ==
    (/\ call.fn = "irr"
     /\ call.done
     /\ \/ SameStrictSign(EndpointLow, EndpointHigh)
        \/ ~IsFinite(EndpointLow)
        \/ ~IsFinite(EndpointHigh)) => call.result.isNull

(***************************************************************************)
(* Properties of the renders, checked under SpecViews.                     *)
(***************************************************************************)
\* a step that builds the views or runs the projector leaves the measure set
\* and the wizard's state as they were
RenderKeepsInputs ==
    call' # call => measures' = measures /\ wizVars' = wizVars

SameAsExported(m, r) ==
    /\ m.name = r.name
    /\ m.sector = r.sector
    /\ m.abatement_tco2 = r.abatement_tco2
    /\ m.cost_per_tco2 = r.cost_per_tco2
    /\ m.selected = r.selected
    /\ HasDetails(m.details) = HasDetails(r.details)
    /\ HasDetails(r.details) => m.details = r.details

SameMeasures(ms, rows) ==
    /\ Len(ms) = Len(rows)
    /\ \A i \in 1..Len(rows) : i <= Len(ms) => SameAsExported(ms[i], rows[i])

\* the step imports the saved file into the empty measure set
ImportIntoEmpty ==
    /\ call.fn = "saveFile"
    /\ call.rows # <<>>
    /\ measures = <<>>
    /\ measures' # <<>>

\* the name survives the trip: it is not empty, holds no line break and has no
\* space at either end
PlainName(s) == s # "" /\ TextOf(s) = Trim(TextOf(s)) /\ \A i \in 1..Len(TextOf(s)) : TextOf(s)[i] # LineBreak

\* the import of an export of plainly named measures gives the measures back
PlainNamesRoundTrip ==
    [][ImportIntoEmpty /\ (\A i \in 1..Len(call.rows) : PlainName(call.rows[i].name))
          => SameMeasures(measures', call.rows)]_vars

\* C16: importing the exported text into the empty measure set gives as many
\* measures, in the same order, each with the name, sector, abatement, cost,
\* selected flag and details of the exported measure
C16_ExportImportRoundTrips ==
    [][ImportIntoEmpty => SameMeasures(measures', call.rows)]_vars

(***************************************************************************)
(* Properties of the segment heights, checked under SpecCurve.             *)
(***************************************************************************)

\* the segment is of a shown measure with the stored cost c, and its height is
\* c minus the carbon price
HeightOfStoredCost(s) ==
    \E j \in 1..Len(measures) :
        /\ measures[j].id = s.id
        /\ Shown(measures[j])
        /\ s.cost = JsSub(measures[j].cost_per_tco2, carbonPrice)

\* the same, for the segments of the measures whose stored cost is a number
HeightOfNumericCost(s) ==
    \E j \in 1..Len(measures) :
        /\ measures[j].id = s.id
        /\ Shown(measures[j])
        /\ measures[j].cost_per_tco2.k # "nan" =>
               s.cost = JsSub(measures[j].cost_per_tco2, carbonPrice)
        /\ measures[j].cost_per_tco2.k = "nan" => s.cost = JsSub(Zero, carbonPrice)

\* the step changes the carbon price, and nothing else the curve is built of
PriceChange ==
    /\ carbonPrice' # carbonPrice
    /\ UNCHANGED <<measures, selectedSector, mode, baselines>>

\* the segments after keep the measures, order, ends and widths of the segments
\* before, and every height has moved by the fall of the carbon price
SameSegmentsShifted(before, after, fall) ==
    /\ Len(after) = Len(before)
    /\ \A k \in 1..Len(before) :
          k <= Len(after) =>
              /\ after[k].id = before[k].id
              /\ after[k].x1_plot = before[k].x1_plot
              /\ after[k].x2_plot = before[k].x2_plot
              /\ after[k].abatement = before[k].abatement
              /\ JsSub(after[k].cost, before[k].cost) = fall

\* a change of the carbon price moves every height alike and keeps which
\* measures have segments, and their widths
PriceShiftsHeights ==
    [][PriceChange => SameSegmentsShifted(segments, SegmentsAtPrice(carbonPrice'),
                                          JsSub(carbonPrice, carbonPrice'))]_vars

\* the heights are the stored costs minus the carbon price where the stored cost
\* is a number, and minus the carbon price where it is NaN
NumericHeights == \A k \in 1..Len(segments) : HeightOfNumericCost(segments[k])

\* C17: every segment's height is its measure's stored cost_per_tco2 minus the
\* carbon price, and a change of the carbon price moves every height by the same
\* amount and keeps which measures have segments, and their widths
C17_HeightIsCostMinusPrice ==
    /\ [](\A k \in 1..Len(segments) : HeightOfStoredCost(segments[k]))
    /\ PriceShiftsHeights

(***************************************************************************)
(* Properties of the tonnes budget-to-target takes, checked under          *)
(* SpecBudget.                                                             *)
(***************************************************************************)

\* what the greedy walk makes of the shown measures for a target of t tonnes
WalkTo(t) == BudgetWalk(maccData, t, [cum |-> Zero, budget |-> Zero, reached |-> Zero])

\* the tonnes budgetToTarget takes in all, and the budget it adds up
TonnesTaken == WalkTo(TargetX(targetIntensityPct)).cum

\* the target percentage of the baseline's annual emissions, in tonnes
TargetTonnes ==
    JsMul(activeBaseline.annual_emissions, JsDiv(targetIntensityPct, Num(100)))

\* in capacity mode, over a baseline with emissions > 0, the walk takes the
\* smaller of the target's tonnes and the total positive abatement
CapacityTakesTargetTonnes ==
    mode = "capacity" /\ JsGT(activeBaseline.annual_emissions, Zero) =>
        /\ TonnesTaken = JsMin(TargetTonnes, TotalPositiveAbatement)
        /\ budgetToTarget.targetReached = TonnesTaken

\* in intensity mode the walk takes the smaller of as many tonnes as the target
\* has percent and the total positive abatement
IntensityTakesPercentAsTonnes ==
    mode = "intensity" /\ JsGT(activeBaseline.annual_emissions, Zero) =>
        /\ TonnesTaken = JsMin(targetIntensityPct, TotalPositiveAbatement)
        /\ budgetToTarget.targetReached =
               JsMul(JsDiv(TonnesTaken, activeBaseline.annual_emissions), Num(100))

\* C18: over a baseline with emissions > 0, in either mode, the walk takes
\* min(targetPct / 100 * emissions, total positive abatement) tonnes, each
\* measure giving min(remaining, its abatement) cheapest first, the budget is the
\* sum of the tonnes taken times the effective costs, and in intensity mode
\* targetReached is the tonnes taken as a percent of the emissions
C18_SameTonnesInBothModes ==
    JsGT(activeBaseline.annual_emissions, Zero) =>
        /\ TonnesTaken = JsMin(TargetTonnes, TotalPositiveAbatement)
        /\ TonnesTaken = WalkTo(TargetTonnes).cum
        /\ budgetToTarget.budget = WalkTo(TargetTonnes).budget
        /\ mode = "intensity" =>
              budgetToTarget.targetReached =
                  JsMul(JsDiv(TonnesTaken, activeBaseline.annual_emissions), Num(100))

(***************************************************************************)
(* Properties of the zero-guards, checked under SpecBudget (the curve and  *)
(* budget-to-target) and SpecWizard (the finance summary).                 *)
(***************************************************************************)

\* the view is in intensity mode over a baseline with annual emissions <= 0
NoBaselineToDivideBy ==
    mode = "intensity" /\ JsLE(activeBaseline.annual_emissions, Zero)

\* every segment starts and ends at 0, and every curve point stands at 0
CurveAtZero ==
    /\ \A k \in 1..Len(segments) :
          segments[k].x1_plot = Zero /\ segments[k].x2_plot = Zero
    /\ \A k \in 1..Len(maccData) : maccData[k].x = Zero

\* the curve's zero-guard: without a baseline to divide by the curve is at 0
CurveGuarded == NoBaselineToDivideBy => CurveAtZero

\* the average levelized costs are 0 when the years abate nothing in total
AvgCostAtZero(py) ==
    sumDirect(py) = Zero => avgCostWO(py) = Zero /\ avgCostW(py) = Zero

\* the finance summary's zero-guard, and its averages are numbers
AvgCostGuarded ==
    wizardOpen =>
        /\ AvgCostAtZero(perYear)
        /\ IsFinite(avgCostWO(perYear))
        /\ IsFinite(avgCostW(perYear))

\* the wizard shows years that abate nothing in total and have a net cost
AvgCostGuardUsed ==
    /\ wizardOpen
    /\ sumDirect(perYear) = Zero
    /\ sumCostInrWO(perYear) # Zero

\* C19: in intensity mode over a baseline with annual emissions <= 0 the
\* segments' x1 and x2, the curve points' x and budget-to-target's targetReached
\* are 0, and the average levelized costs are 0 when the total positive direct
\* abatement is 0
C19_ZeroGuards ==
    /\ NoBaselineToDivideBy =>
          CurveAtZero /\ budgetToTarget.targetReached = Zero
    /\ wizardOpen => AvgCostAtZero(perYear)

(***************************************************************************)
(* Properties of the sort's ties, checked under SpecCurve.                 *)
(***************************************************************************)

\* the effective cost the sort gives the stored measure m
EffectiveCostOf(m) == JsSub(OrZero(m.cost_per_tco2), OrZero(carbonPrice))

\* the ids of the elements i of s with keep[i], in the order of s
IdsWhere(s, keep) ==
    LET kept == FilterSeq(s, keep) IN [i \in 1..Len(kept) |-> kept[i].id]

\* the ids of the shown measures of effective cost c, in stored order; of the
\* sorted list's elements of effective cost c; and the same for the measures
\* that have segments, and the segments of height c
StoredIdsAt(c) ==
    IdsWhere(measures, [i \in 1..Len(measures) |->
                           Shown(measures[i]) /\ EffectiveCostOf(measures[i]) = c])
SortedIdsAt(c) ==
    IdsWhere(sorted, [i \in 1..Len(sorted) |-> sorted[i].effective_cost = c])
StoredSegmentIdsAt(c) ==
    IdsWhere(measures, [i \in 1..Len(measures) |->
                           /\ Shown(measures[i])
                           /\ EffectiveCostOf(measures[i]) = c
                           /\ ~SegmentSkipped(WithEffectiveCost(measures[i]))])
SegmentIdsAt(c) ==
    IdsWhere(segments, [i \in 1..Len(segments) |-> segments[i].cost = c])

\* C20: the shown measures of one effective cost stand in the sorted list, and
\* those with segments in the segment list, in the order they have in the stored
\* measure set
C20_SortIsStable ==
    \A j \in 1..Len(measures) :
        /\ SortedIdsAt(EffectiveCostOf(measures[j]))
              = StoredIdsAt(EffectiveCostOf(measures[j]))
        /\ SegmentIdsAt(EffectiveCostOf(measures[j]))
              = StoredSegmentIdsAt(EffectiveCostOf(measures[j]))

\* two measures of one effective cost have segments, under a carbon price
C20_Witness ==
    /\ carbonPrice # Zero
    /\ Len(segments) = 2
    /\ segments[1].cost = segments[2].cost
    /\ segments[1].id # segments[2].id
    /\ StoredSegmentIdsAt(segments[1].cost) = <<segments[1].id, segments[2].id>>

(***************************************************************************)
(* Properties of the adoption clamp, checked under SpecDrivers.            *)
(***************************************************************************)

\* adoption entries above 1, and entries below 0, blank or not a number
AboveOne  == {Fin(12, 10), Num(2)}
BelowZero == {Num(-1), Blank, NaN}

\* the year record of year i at the adoption entry v is the one at entry w
SameYearRecord(i, v, w) == PerYearAt(i, v) = PerYearAt(i, w)

\* C21: in every year an adoption entry above 1 gives the year record of
\* adoption 1, an entry below 0, blank or not a number gives that of adoption
\* 0, and at adoption 0 the year's direct_t and driver cost are 0
C21_AdoptionClamped ==
    wizardOpen =>
        \A i \in YearIdx :
            /\ \A v \in AboveOne : SameYearRecord(i, v, Num(1))
            /\ \A v \in BelowZero : SameYearRecord(i, v, Zero)
            /\ PerYearAt(i, Zero).direct_t = Zero
            /\ PerYearAt(i, Zero).driver_cr = Zero

\* the wizard shows a year whose record at adoption 1 has tonnes and a driver
\* cost, and differs from its record at adoption 1/2, and the profile's entry
\* for 2050 is the initial 1.2
C21_Witness ==
    /\ wizardOpen
    /\ adoption[7] = Fin(12, 10)
    /\ \E i \in YearIdx :
          /\ PerYearAt(i, Num(1)).direct_t # Zero
          /\ PerYearAt(i, Num(1)).driver_cr # Zero
          /\ PerYearAt(i, Num(1)) # PerYearAt(i, Fin(1, 2))
          /\ PerYearAt(i, Num(2)) = PerYearAt(i, Num(1))

(***************************************************************************)
(* Properties of the adoption profile, checked under SpecAdoption.         *)
(***************************************************************************)

\* the entry is blank or a fraction in [0,1]
BlankOrFraction(v) == v = Blank \/ (IsFinite(v) /\ JsGE(v, Zero) /\ JsLE(v, Num(1)))

\* the profile a holds fractions at the years of the set Y
FractionsAt(a, Y) == \A i \in Y : BlankOrFraction(a[i])

\* the mounted wizard's profile, and the one stored with every template
\* measure, hold fractions at the years of the set Y
ProfilesAt(Y) ==
    /\ wizardOpen => FractionsAt(adoption, Y)
    /\ \A j \in 1..Len(measures) :
          IsTemplate(measures[j]) => FractionsAt(measures[j].details.adoption, Y)

\* the years before 2050 hold fractions; the entry for 2050 does once the
\* user has typed it
FractionsBefore2050 == ProfilesAt({i \in YearIdx : YEARS[i] # 2050})

\* a step that types the entry of year i leaves a fraction or a blank there
TypedEntryIsFraction ==
    \A i \in YearIdx :
        (wizardOpen /\ wizardOpen' /\ adoption'[i] # adoption[i]) =>
            BlankOrFraction(adoption'[i])

\* every entry a step changes is blank or a fraction afterwards
ChangedEntriesAreFractions == [][TypedEntryIsFraction]_vars

\* C22: every non-blank entry of the mounted wizard's adoption profile, and of
\* the adoption array stored with a template measure, is a fraction in [0,1]
C22_AdoptionInRange == ProfilesAt(YearIdx)

(***************************************************************************)
(* Properties of irr's loop, checked under SpecIrrRun.                     *)
(***************************************************************************)

\* the call has returned
Returned == call.fn = "irrRun" /\ call.pc = "done"

\* the statement-by-statement call returns what irr returns
RunReturnsIrr ==
    Returned => call.result = irr(call.amounts, call.years, call.baseYear,
                                  call.guessLow, call.guessHigh, call.tol,
                                  call.maxIter)

\* the returned rate lies in the initial bracket and is the midpoint of the
\* bracket the call holds when it returns
RateIsMidpointInBracket ==
    /\ JsLE(call.guessLow, call.result.rate)
    /\ JsLE(call.result.rate, call.guessHigh)
    /\ call.result.rate = Midpoint(call.lo, call.hi)

\* C23: irr returns, after at most maxIter passes of its loop, and what it
\* returns is null or a rate within [guessLow, guessHigh] that is the midpoint
\* of the bracket at the return
C23_IrrTerminates ==
    /\ <>Returned
    /\ [](call.it <= call.maxIter)
    /\ [](Returned /\ ~call.result.isNull => RateIsMidpointInBracket)

\* the call has returned a rate after maxIter passes that moved both ends of
\* the bracket
C23_Witness ==
    /\ Returned
    /\ ~call.result.isNull
    /\ call.it = call.maxIter
    /\ call.lo # call.guessLow
    /\ call.hi # call.guessHigh

(***************************************************************************)
(* C30: the loop invariant of irr's bisection, checked under SpecIrrRun.   *)
(***************************************************************************)
\* the call is at the start of an iteration (or at the loop's exit test)
AtLoopHead == call.fn = "irrRun" /\ call.pc = "loop"

\* [lo, hi] lies in the initial bracket, lo <= hi
BracketWithinInitial ==
    /\ JsLE(call.guessLow, call.lo)
    /\ JsLE(call.lo, call.hi)
    /\ JsLE(call.hi, call.guessHigh)

\* fLo and fHi are the NPVs at lo and hi
CachedNpvs ==
    /\ call.fLo = npv(call.lo, call.amounts, call.years, call.baseYear)
    /\ call.fHi = npv(call.hi, call.amounts, call.years, call.baseYear)

\* fLo * fHi <= 0
NoSameStrictSign == JsLE(JsMul(call.fLo, call.fHi), Zero)

BracketAtLoopHead == AtLoopHead => BracketWithinInitial /\ CachedNpvs

\* C30: at the start of every iteration of irr's bisection the bracket [lo, hi] lies
\* within the initial bracket with lo <= hi, fLo and fHi are the NPVs at lo and hi,
\* and fLo * fHi <= 0, also for a series whose NPV at an endpoint is exactly 0
C30_LoopInvariant == AtLoopHead => BracketWithinInitial /\ NoSameStrictSign

\* what holds of the signs: a run whose NPV at guessLow is not 0 keeps fLo * fHi <= 0
SignsKeptFromNonZeroLow ==
    AtLoopHead /\ f[call.amounts, call.guessLow] # Zero => NoSameStrictSign

(***************************************************************************)
(* C24: saving a template without abatement, checked under SpecWizard.     *)
(***************************************************************************)
\* the wizard is open on a template whose representative year abates nothing
NothingToAbate == wizardOpen /\ JsLE(computed.rep.direct_t, Zero)

\* the step appended one measure, of abatement 0, and closed the wizard
AppendedWithoutAbatement ==
    /\ Len(measures') = Len(measures) + 1
    /\ SubSeq(measures', 1, Len(measures)) = measures
    /\ measures'[Len(measures')].abatement_tco2 = Zero
    /\ measures'[Len(measures')].details.mode = "template_db_multiline"
    /\ ~wizardOpen'

\* C24: saving a template whose representative-year abatement is <= 0 asks for
\* confirmation: confirmed, the measure is appended with abatement_tco2 = 0 and the
\* wizard closes; declined, the measure set and the wizard stay as they are
C24_ZeroAbatementSaveConfirms ==
    [][NothingToAbate =>
          /\ saveTemplate(TRUE) => AppendedWithoutAbatement
          /\ saveTemplate(FALSE) => UNCHANGED vars]_vars

\* a template saved on confirmation, its representative year below 0
C24_Witness ==
    /\ ~wizardOpen
    /\ Len(measures) = 1
    /\ measures[1].details.mode = "template_db_multiline"
    /\ measures[1].abatement_tco2 = Zero
    /\ JsLT(measures[1].details.per_year[measures[1].details.representative_index + 1].direct_t,
            Zero)

(***************************************************************************)
(* C25: a table edit or delete touches one measure, checked under Spec.    *)
(***************************************************************************)
\* what the cells of row j can be edited to
TableEdits(j) ==
    {[measures[j] EXCEPT !.selected = b] : b \in BOOLEAN}
    \cup {[measures[j] EXCEPT !.sector = v] : v \in Sectors}
    \cup {[measures[j] EXCEPT !.name = "Boiler"],
          [measures[j] EXCEPT !.abatement_tco2 = StrToNum("5")],
          [measures[j] EXCEPT !.cost_per_tco2 = StrToNum("-1")]}

\* the measures but the one at position j, in their order
WithoutRow(j) == SubSeq(measures, 1, j - 1) \o SubSeq(measures, j + 1, Len(measures))

\* an edit of row j leaves exactly row j edited, a Delete of row j removes exactly it
TouchesRow(j) ==
    /\ \A e \in TableEdits(j) : EditRow(j, e) => measures' = [measures EXCEPT ![j] = e]
    /\ Delete(j) => measures' = WithoutRow(j)

\* what holds: the edit and the delete touch one measure while the ids are distinct
TouchesOneRowWhileIdsDistinct ==
    [][C4_IdsUnique => \A j \in 1..Len(measures) : TouchesRow(j)]_vars

\* C25: after any sequence of saves, imports and deletes, editing a field of a table
\* row changes that measure's field and nothing else of the measure list, and Delete
\* removes exactly that one measure
C25_EditTouchesOneMeasure == [][\A j \in 1..Len(measures) : TouchesRow(j)]_vars

(***************************************************************************)
(* C26: the fall-back of the cost model, checked under SpecFit.            *)
(***************************************************************************)
\* no state a handler and its effects leave has the fit model without a fit
NoFitModelWithoutFit == costModel = "fit" => ~quadIsNull

\* a step that leaves fewer than 3 points to fit takes the fit model back to step
StepFallsBack ==
    (/\ costModel = "fit"
     /\ FitPoints(measures', selectedSector', carbonPrice', fitPositiveCostsOnly') < 3)
    => costModel' = "step"

\* the button "Quadratic Fit" on a curve of fewer than 3 points changes nothing
FitButtonNeedsThreePoints ==
    setCostModelFit /\ Len(maccData) < 3 => costModel' = costModel

\* C26: whenever the cost model is fit and no fit is available (fewer than 3 points to
\* fit after a delete, a deselect, a sector change or positive-costs-only) the cost
\* model returns to step without user action, and clicking Quadratic Fit on a curve
\* of fewer than 3 points leaves the cost model unchanged
C26_FitFallsBackToStep ==
    /\ []NoFitModelWithoutFit
    /\ [][StepFallsBack /\ FitButtonNeedsThreePoints]_vars

\* the cost model fell back when positive-costs-only left fewer than 3 points
C26_Witness ==
    /\ costModel = "step"
    /\ fitPositiveCostsOnly
    /\ Len(maccData) >= 3
    /\ quadIsNull

(***************************************************************************)
(* C27: the line ids of the wizard's driver lists, checked under SpecLines.*)
(***************************************************************************)
\* the lines of the list have pairwise distinct ids
IdsDistinctIn(list) ==
    \A i, j \in 1..Len(list) : i # j => list[i].id # list[j].id

LineIdsDistinct == \A which \in LineLists : IdsDistinctIn(ListOf(which))

\* the seq without its element at position k
WithoutLineAt(list, k) == SubSeq(list, 1, k - 1) \o SubSeq(list, k + 1, Len(list))

\* an update of the line at position k patched that line and no other
UpdatesOnlyLine(which, k) ==
    \A patch \in LinePatches :
        UpdateLine(which, ListOf(which)[k].id, patch) =>
            /\ Len(ListOf(which)') = Len(ListOf(which))
            /\ \A n \in 1..Len(ListOf(which)) :
                  ListOf(which)'[n] = IF n = k THEN Spread(ListOf(which)[k], patch)
                                      ELSE ListOf(which)[n]
            /\ ListOf(which)'[k].id = ListOf(which)[k].id

\* a removal of the line at position k removed that line and no other
RemovesOnlyLine(which, k) ==
    RemoveLine(which, ListOf(which)[k].id) =>
        ListOf(which)' = WithoutLineAt(ListOf(which), k)

\* C27: in each driver list of the wizard, after any sequence of addLine, removeLine
\* and updateLine, the line ids are pairwise distinct; updateLine changes only the
\* line of the given id and removeLine removes only that line
C27_LineIdsDistinct ==
    /\ []LineIdsDistinct
    /\ [][\A which \in LineLists : \A k \in 1..Len(ListOf(which)) :
             UpdatesOnlyLine(which, k) /\ RemovesOnlyLine(which, k)]_vars

\* the first line was removed, a line was added after it, the older one patched
C27_Witness ==
    /\ wizardOpen
    /\ Len(fuelLines) = 2
    /\ fuelLines[1].id = 2
    /\ fuelLines[2].id = 3
    /\ fuelLines[1].priceOv = Num(4)
    /\ fuelLines[2].priceOv = Null

(***************************************************************************)
(* C28: interpolateSeries, checked under SpecInterpolate.                  *)
(***************************************************************************)
InterpolateReturned == call.fn = "interpolateSeries" /\ call.pc # "start"

\* the positions of the finite entries of s before and after position i
FiniteBefore(s, i) == {k \in 1..(i - 1) : ~NotAnAnchor(s[k])}
FiniteAfter(s, i)  == {k \in (i + 1)..Len(s) : ~NotAnAnchor(s[k])}

SetMax(S) == CHOOSE x \in S : \A y \in S : y <= x
SetMin(S) == CHOOSE x \in S : \A y \in S : x <= y

\* the value at i of the line through (lo, s[lo]) and (hi, s[hi])
OnTheLine(s, lo, hi, i) ==
    JsDiv(JsAdd(JsMul(s[lo], Num(hi - i)), JsMul(s[hi], Num(i - lo))), Num(hi - lo))

\* what the entry i of the result has to be
Interpolated(s, i) ==
    IF ~NotAnAnchor(s[i]) \/ FiniteBefore(s, i) = {} \/ FiniteAfter(s, i) = {}
    THEN s[i]
    ELSE OnTheLine(s, SetMax(FiniteBefore(s, i)), SetMin(FiniteAfter(s, i)), i)

ResultIsInterpolation ==
    InterpolateReturned =>
        /\ Len(call.result) = Len(call.series)
        /\ \A i \in 1..Len(call.series) : call.result[i] = Interpolated(call.series, i)
        /\ call.series = call.given

SecondCallChangesNothing ==
    call.fn = "interpolateSeries" /\ call.pc = "again" => call.again = call.result

\* C28: interpolateSeries returns a series of the same length in which every finite
\* entry is unchanged, every blank or non-finite entry between two finite entries
\* lies on the line through the nearest finite entries on either side, and the
\* entries before the first and after the last finite entry are unchanged; the
\* input is not modified, and interpolating the result again changes nothing
C28_InterpolateSeries == ResultIsInterpolation /\ SecondCallChangesNothing

\* a series with a blank before the first finite entry, two entries to fill between
\* 0 and 4, and a non-finite entry after the last finite one
C28_Witness ==
    /\ call.fn = "interpolateSeries"
    /\ call.pc = "again"
    /\ call.given = <<Blank, Num(4), Blank, NaN, Num(0), PosInf>>
    /\ call.result = <<Blank, Num(4), Fin(8, 3), Fin(4, 3), Num(0), PosInf>>

(***************************************************************************)
(* C29: start-up finishes loading, checked under SpecStartUp.              *)
(***************************************************************************)
\* the start-up is on the path of stored measures
StoredPath == call.localMeasures.kind = "json"

\* a fetch or a parse of this start-up fails: a file of its path does not arrive
\* as JSON (measures.csv: does not arrive)
FetchOrParseFails ==
    \E i \in (IF StoredPath THEN 2..Len(DataFiles) ELSE 1..Len(DataFiles)) :
        call.fates[i] \in (IF i = 1 THEN {"rejected", "notOk"}
                           ELSE {"rejected", "notOk", "badJson"})

\* the error is set only after a failure, and is set once loading is over if
\* there was one
ErrorExactlyOnFailure ==
    /\ dataError # NoError => FetchOrParseFails
    /\ dataLoaded /\ FetchOrParseFails => dataError # NoError

\* a stored measure set stays the measure set
StoredSetKept == StoredPath => measures = call.localMeasures.value

\* C29: start-up always finishes loading: with or without stored measures, and
\* whether every fetch succeeds or a fetch or a parse fails, dataLoaded becomes
\* true; dataError is set exactly when a fetch or parse failed; and a stored
\* measure set is never replaced by the contents of measures.csv
C29_StartUpFinishes ==
    /\ <>dataLoaded
    /\ []ErrorExactlyOnFailure
    /\ []StoredSetKept

\* loading is over and the application shows, the stored set being kept while
\* measures.csv holds other measures
C29_Witness ==
    /\ Screen = "app"
    /\ call.localMeasures = [kind |-> "json", value |-> <<Loaded(1, "Steel", 5, 2)>>]
    /\ call.csv = LoadedMeasures
    /\ call.sectors # <<>>
    /\ dataSources.measures = measures
    /\ measures = call.localMeasures.value

=============================================================================
